---- MODULE Spec2Model ----
(***************************************************************************)
(* Seal-PRO: the seal-check converter core (src/converter_core.py) and the *)
(* convert button of its window with the worker thread it starts           *)
(* (src/unnamed/part_000).                                                 *)
(*                                                                         *)
(* A cell value is None, a string, a number or a float NaN.  Strings are   *)
(* TLA+ strings handled character by character (Head, Tail, SubSeq), so    *)
(* strip, upper, substring search and '/' truncation are computed as the   *)
(* code computes them.  A worksheet is a sequence of rows, a row a         *)
(* sequence of cell values; rows and columns are 1-based as in openpyxl.   *)
(***************************************************************************)
EXTENDS Integers, Sequences, FiniteSets, TLC

VARIABLES
    \* inputs of one convert() call
    ws_source,          \* the active sheet of the source workbook
    voyage_filters,     \* sequence of strings (<<>> when None or empty)
    carrier_filters,    \* sequence of strings (<<>> when None or empty)
    progress_callback,  \* TRUE when the caller passed a callback
    template_path,      \* the sheet of the workbook file at self.template_path
    \* locals of convert()
    pc,                 \* position of the call
    file_format, headers, data_start_row,
    source_col_indices, \* dict: column name -> 1-based index
    container_col_idx, voyage_col_idx, carrier_col_idx,   \* 0 stands for None
    containers_found, containers_skipped, total_seals, seal_distribution,
    output_row, source_row,
    ws_template,        \* the template sheet of this call: row -> column -> value
    result,             \* what convert() returned
    out_file,           \* the file at output_path
    log,                \* the messages the callback has received, in order
    raised,             \* an exception has reached the except clause
    \* history of the row loop
    examined,           \* source rows whose container cell the loop has read
    accepted,           \* source rows accepted, in order
    \* direct calls of the two pure functions
    cell_value, norm_calls,
    detect_calls,
    \* two convert() calls on one converter object
    invocations,        \* the locals of each call
    workbooks,          \* the workbook instances in memory: reference -> sheet
    files,              \* the files at the output paths: path -> content
    \* the window of the application (SealCheckConverterGUI)
    selected_file,      \* name of the source file chosen; "" stands for None
    convert_btn,        \* state of the convert button: "normal" or "disabled"
    vessel_voyage_vars, \* the entry fields: sequence of <<vessel, voyage>>
    workers             \* the threads process_file has started

inputs == <<ws_source, voyage_filters, carrier_filters, progress_callback,
            template_path>>
locals == <<file_format, headers, data_start_row, source_col_indices,
            container_col_idx, voyage_col_idx, carrier_col_idx,
            containers_found, containers_skipped, total_seals,
            seal_distribution, output_row, source_row, ws_template,
            result, out_file, log, raised, examined, accepted>>
pure == <<cell_value, norm_calls, detect_calls>>
concurrent == <<invocations, workbooks, files>>
gui == <<selected_file, convert_btn, vessel_voyage_vars, workers>>
vars == <<inputs, pc, locals, pure, concurrent, gui>>

-----------------------------------------------------------------------------
(* Bounds of the model *)

\* data rows of a generated worksheet
NDataRows == 3
\* seal columns of the worksheets generated for the seal packing
NSealCols == 6
\* length of the strings drawn as raw cell values for the normalizer
MaxStrLen == 3

-----------------------------------------------------------------------------
(* Cell values *)

None == [k |-> "none"]
NaN == [k |-> "nan"]
Str(s) == [k |-> "str", v |-> s]
Num(n) == [k |-> "num", v |-> n]
IsStr(x) == x.k = "str"
IsNum(x) == x.k = "num"

-----------------------------------------------------------------------------
(* Python string operations *)

Whitespace == {" ", "\t", "\n"}

RECURSIVE lstrip(_)
lstrip(s) ==
    IF s = "" THEN ""
    ELSE IF Head(s) \in Whitespace THEN lstrip(Tail(s)) ELSE s

RECURSIVE rstrip(_)
rstrip(s) ==
    IF s = "" THEN ""
    ELSE IF SubSeq(s, Len(s), Len(s)) \in Whitespace
         THEN rstrip(SubSeq(s, 1, Len(s) - 1))
         ELSE s

strip(s) == rstrip(lstrip(s))

LowerAlpha == "abcdefghijklmnopqrstuvwxyz"
UpperAlpha == "ABCDEFGHIJKLMNOPQRSTUVWXYZ"
LowerChars == {SubSeq(LowerAlpha, i, i) : i \in 1..26}
UpperTable ==
    [c \in LowerChars |->
        LET i == CHOOSE j \in 1..26 : SubSeq(LowerAlpha, j, j) = c
        IN  SubSeq(UpperAlpha, i, i)]

RECURSIVE upper(_)
upper(s) ==
    IF s = "" THEN ""
    ELSE (IF Head(s) \in LowerChars THEN UpperTable[Head(s)] ELSE Head(s))
         \o upper(Tail(s))

\* sub in s
contains(sub, s) ==
    \E i \in 1..(Len(s) - Len(sub) + 1) : SubSeq(s, i, i + Len(sub) - 1) = sub

\* s.split('/')[0]
RECURSIVE before_slash(_)
before_slash(s) ==
    IF s = "" THEN ""
    ELSE IF Head(s) = "/" THEN "" ELSE Head(s) \o before_slash(Tail(s))

Digits == "0123456789"

RECURSIVE nat_str(_)
nat_str(n) ==
    IF n < 10 THEN SubSeq(Digits, n + 1, n + 1)
    ELSE nat_str(n \div 10) \o SubSeq(Digits, (n % 10) + 1, (n % 10) + 1)

\* str(value) of a non-None cell value
str(x) ==
    IF IsStr(x) THEN x.v
    ELSE IF x = NaN THEN "nan"
    ELSE IF x.v < 0 THEN "-" \o nat_str(-x.v) ELSE nat_str(x.v)

\* s.zfill(2)
zfill2(s) ==
    IF Len(s) >= 2 THEN s
    ELSE IF s = "" THEN "00"
    ELSE IF s \in {"+", "-"} THEN s \o "0"
    ELSE "0" \o s

\* truthiness of a cell value (if value: ...)
truthy(x) ==
    CASE x = None -> FALSE
      [] x = NaN -> TRUE
      [] IsStr(x) -> x.v # ""
      [] OTHER -> x.v # 0

-----------------------------------------------------------------------------
(* get_non_empty_value *)

DashPlaceholder == ",----------------------"
EmptySentinels == {"", "NAN", DashPlaceholder, "0"}

\* the sentinel test made on the untrimmed string
get_non_empty_value_test_before_strip(x) ==
    IF x = None THEN None
    ELSE IF x = NaN THEN None
    ELSE IF IsStr(x)
         THEN IF upper(x.v) \in EmptySentinels THEN None ELSE Str(strip(x.v))
    ELSE IF x.v = 0 THEN None
    ELSE x

get_non_empty_value(x) ==
    IF x = None THEN None
    ELSE IF x = NaN THEN None
    ELSE IF IsStr(x)
         THEN LET s == strip(x.v)
              IN  IF upper(s) \in EmptySentinels THEN None ELSE Str(s)
    ELSE IF x.v = 0 THEN None
    ELSE x

-----------------------------------------------------------------------------
(* Worksheets *)

max_row(ws) == Len(ws)

max_len(ws) ==
    LET lens == {Len(ws[r]) : r \in 1..Len(ws)} \cup {1}
    IN  CHOOSE m \in lens : \A q \in lens : q <= m

max_column(ws) == max_len(ws)

\* ws.cell(row=r, column=c).value
Cell(ws, r, c) ==
    IF r \in 1..Len(ws) /\ c \in 1..Len(ws[r]) THEN ws[r][c] ELSE None

\* [cell.value for cell in ws[r]]
row_values(ws, r) == [c \in 1..max_column(ws) |-> Cell(ws, r, c)]

\* h in headers, for an indicator string h
has_header(hs, h) == \E i \in 1..Len(hs) : hs[i] = Str(h)

-----------------------------------------------------------------------------
(* detect_file_format *)

pisco_indicators == {"CtrNbr", "POR", "SzTp"}
listofunit_indicators == {"UNIT", "SIZE", "POL", "POD", "SEAL"}
unitlist_indicators == {"Voyage In", "Voyage Out"}
colonlist_indicators == {"Current LOC Block", "Current LOC Bay"}

Detected(f, hs, start) ==
    [file_format |-> f, headers |-> hs, data_start_row |-> start]

\* the UNITLIST rule tested before the PISCO rule
detect_file_format_unitlist_first(ws) ==
    LET headers_row1 == row_values(ws, 1)
        headers_row3 == row_values(ws, 3)
        any1(P(_)) == \E i \in 1..Len(headers_row1) : P(headers_row1[i])
        in_unitlist(h) == IsStr(h) /\ h.v # "" /\ h.v \in unitlist_indicators
        in_colon(h) == IsStr(h) /\ h.v # "" /\ h.v \in colonlist_indicators
        is_slot(h) == truthy(h) /\ contains("Slot (Yard)", str(h))
        is_cont(h) == truthy(h) /\ contains("CONTENEDOR", upper(str(h)))
    IN  IF any1(in_unitlist) THEN Detected("UNITLIST", headers_row1, 2)
        ELSE IF \A h \in pisco_indicators : has_header(headers_row1, h)
        THEN Detected("PISCO", headers_row1, 2)
        ELSE IF \A h \in listofunit_indicators : has_header(headers_row1, h)
        THEN Detected("LIST_OF_UNIT", headers_row1, 2)
        ELSE IF any1(in_colon) THEN Detected("COLON YARD", headers_row1, 9)
        ELSE IF any1(is_slot)
        THEN IF headers_row1[1] = Str("Container")
             THEN Detected("RODMAN_CONVERTED", headers_row1, 2)
             ELSE Detected("RODMAN", headers_row1, 2)
        ELSE IF \E i \in 1..Len(headers_row3) : is_cont(headers_row3[i])
        THEN Detected("LISTADO", headers_row3, 4)
        ELSE Detected("GATE_IN", headers_row1, 2)

\* no default: a sheet matching no rule gets no format
detect_file_format_no_default(ws) ==
    LET headers_row1 == row_values(ws, 1)
        headers_row3 == row_values(ws, 3)
        any1(P(_)) == \E i \in 1..Len(headers_row1) : P(headers_row1[i])
        in_unitlist(h) == IsStr(h) /\ h.v # "" /\ h.v \in unitlist_indicators
        in_colon(h) == IsStr(h) /\ h.v # "" /\ h.v \in colonlist_indicators
        is_slot(h) == truthy(h) /\ contains("Slot (Yard)", str(h))
        is_cont(h) == truthy(h) /\ contains("CONTENEDOR", upper(str(h)))
    IN  IF \A h \in pisco_indicators : has_header(headers_row1, h)
        THEN Detected("PISCO", headers_row1, 2)
        ELSE IF \A h \in listofunit_indicators : has_header(headers_row1, h)
        THEN Detected("LIST_OF_UNIT", headers_row1, 2)
        ELSE IF any1(in_unitlist) THEN Detected("UNITLIST", headers_row1, 2)
        ELSE IF any1(in_colon) THEN Detected("COLON YARD", headers_row1, 9)
        ELSE IF any1(is_slot)
        THEN IF headers_row1[1] = Str("Container")
             THEN Detected("RODMAN_CONVERTED", headers_row1, 2)
             ELSE Detected("RODMAN", headers_row1, 2)
        ELSE IF \E i \in 1..Len(headers_row3) : is_cont(headers_row3[i])
        THEN Detected("LISTADO", headers_row3, 4)
        ELSE Detected("", headers_row1, 2)

detect_file_format(ws) ==
    LET headers_row1 == row_values(ws, 1)
        headers_row3 == row_values(ws, 3)
        any1(P(_)) == \E i \in 1..Len(headers_row1) : P(headers_row1[i])
        in_unitlist(h) == IsStr(h) /\ h.v # "" /\ h.v \in unitlist_indicators
        in_colon(h) == IsStr(h) /\ h.v # "" /\ h.v \in colonlist_indicators
        is_slot(h) == truthy(h) /\ contains("Slot (Yard)", str(h))
        is_cont(h) == truthy(h) /\ contains("CONTENEDOR", upper(str(h)))
    IN  IF \A h \in pisco_indicators : has_header(headers_row1, h)
        THEN Detected("PISCO", headers_row1, 2)
        ELSE IF \A h \in listofunit_indicators : has_header(headers_row1, h)
        THEN Detected("LIST_OF_UNIT", headers_row1, 2)
        ELSE IF any1(in_unitlist) THEN Detected("UNITLIST", headers_row1, 2)
        ELSE IF any1(in_colon) THEN Detected("COLON YARD", headers_row1, 9)
        ELSE IF any1(is_slot)
        THEN IF headers_row1[1] = Str("Container")
             THEN Detected("RODMAN_CONVERTED", headers_row1, 2)
             ELSE Detected("RODMAN", headers_row1, 2)
        ELSE IF \E i \in 1..Len(headers_row3) : is_cont(headers_row3[i])
        THEN Detected("LISTADO", headers_row3, 4)
        ELSE Detected("GATE_IN", headers_row1, 2)

-----------------------------------------------------------------------------
(* convert: column mappings of each format *)

\* template column of a mapping that is used for filtering only (None)
NoTemplateCol == ""

gate_in_seal_columns ==
    << "NAVIERO",
       "Seal 2(shipping)", "SEAL 2",
       "Seal EL (shipping)", "SELLO CABLE (EL)",
       "OTHER SEAL (shipping)", "SEAL4 (XZ)", "SEAL 5 (DL)",
       "SEAL 6", "SEAL 7", "SEAL 8", "SEAL 9", "SEAL 10",
       "Seal (PAN)", "SelloPAN",
       "Seal (AFORO)", "Sello AFORO", "AFORO",
       "Seal (2)", "Sello2",
       "Other Seal New",
       "Naviero", "Sello3", "Sello4", "Sello5", "Sello" >>

\* direct_mappings.items(), in the order of the dict
direct_mappings(fmt) ==
    IF fmt \in {"RODMAN", "RODMAN_CONVERTED"}
    THEN << <<"Unit", "Container">>, <<"Container", "Container">>,
            <<"POL", "POL">>, <<"POD", "POD">>,
            <<"ISO", "Type">>, <<"Type", "Type">>,
            <<"Slot (Yard)", "Slot">>, <<"Slot", "Slot">> >>
    ELSE IF fmt = "PISCO"
    THEN << <<"CtrNbr", "Container">>, <<"POR", "POL">>,
            <<"POD", "POD">>, <<"SzTp", "Type">> >>
    ELSE IF fmt = "UNITLIST"
    THEN << <<"Unit", "Container">>, <<"POL", "POL">>, <<"SPOD", "POD">>,
            <<"ISO", "Type">>, <<"Slot (EXE)", "Slot">>,
            <<"Voyage In", NoTemplateCol>>, <<"Voyage Out", NoTemplateCol>> >>
    ELSE IF fmt = "COLON YARD"
    THEN << <<"Container No", "Container">>, <<"POL", "POL">>,
            <<"POD", "POD">>, <<"ISO Type", "Type">>,
            <<"Dept Carrier", NoTemplateCol>>, <<"Carrier", NoTemplateCol>> >>
    ELSE IF fmt = "LIST_OF_UNIT"
    THEN << <<"UNIT", "Container">>, <<"SIZE", "Type">>,
            <<"POL", "POL">>, <<"POD", "POD">> >>
    ELSE IF fmt = "LISTADO"
    THEN << <<"CONTENEDOR", "Container">>,
            <<"POT (PUERTO DE DESCARGA)", "POL">>,
            <<"POD (PUERTO DE DESTINO FINAL)", "POD">>,
            <<"POD (PUERTO FINAL)", "POD">>, <<"SIZE", "Type">> >>
    ELSE << <<"CONTENEDOR", "Container">>, <<"PortLoad", "POL">>,
            <<"POD (PUERTO DE DESTINO FINAL)", "POD">>,
            <<"POD (PUERTO FINAL)", "POD">>, <<"SIZE", "Type">> >>

\* key of the i-th column of a LIST_OF_UNIT sheet, when it is named SEAL
seal_col_key(i) == "SEAL_COL_" \o nat_str(i)

\* the first column whose header is SEAL, and no other
seal_col_indices_first_only(hs) ==
    LET found == {i \in 1..Len(hs) : truthy(hs[i]) /\ upper(str(hs[i])) = "SEAL"}
    IN  IF found = {} THEN <<>> ELSE <<CHOOSE i \in found : \A q \in found : i <= q>>

\* the column indices, left to right, whose header is SEAL (LIST_OF_UNIT)
RECURSIVE seal_col_indices_from(_, _)
seal_col_indices_from(hs, i) ==
    IF i > Len(hs) THEN <<>>
    ELSE IF truthy(hs[i]) /\ upper(str(hs[i])) = "SEAL"
         THEN <<i>> \o seal_col_indices_from(hs, i + 1)
         ELSE seal_col_indices_from(hs, i + 1)

seal_col_indices(hs) == seal_col_indices_from(hs, 1)

seal_columns(fmt, hs) ==
    IF fmt \in {"RODMAN", "RODMAN_CONVERTED"}
    THEN << "Seal 1 / type / origin", "Seal 2 / type / origin",
            "Seal 3 / type / origin", "Seal 1", "Seal 2", "Seal 3" >>
    ELSE IF fmt = "PISCO" THEN << "Carrier Seal" >>
    ELSE IF fmt = "UNITLIST"
    THEN << "Seal 1 / type / origin", "Seal 2 / type / origin",
            "Seal 3 / type / origin" >>
    ELSE IF fmt = "COLON YARD" THEN << "Seal No. 1" >>
    ELSE IF fmt = "LIST_OF_UNIT"
    THEN LET idx == seal_col_indices(hs)
         IN  [j \in 1..Len(idx) |-> seal_col_key(idx[j])]
    ELSE gate_in_seal_columns

slot_columns ==
    << "Current LOC Block", "Current LOC Bay",
       "Current LOC Row", "Current LOC Tier" >>

template_cols ==
    [n \in {"Container", "POL", "POD", "Type", "Slot",
            "Seal 1", "Seal 2", "Seal 3", "Seal 4", "Seal 5"} |->
        CASE n = "Container" -> 1 [] n = "POL" -> 2 [] n = "POD" -> 3
          [] n = "Type" -> 4 [] n = "Slot" -> 5
          [] n = "Seal 1" -> 6 [] n = "Seal 2" -> 7 [] n = "Seal 3" -> 8
          [] n = "Seal 4" -> 9 [] n = "Seal 5" -> 10]

-----------------------------------------------------------------------------
(* convert: column resolution *)

\* str(header).strip().upper() of every header cell that is not empty
header_keys(hs) ==
    [i \in 1..Len(hs) |->
        IF truthy(hs[i]) THEN Str(upper(strip(str(hs[i])))) ELSE None]

\* index of the last header equal to column_name.upper()
find_from_last_match(keys, upper_name, i) ==
    LET found == {j \in i..Len(keys) : keys[j] = Str(upper_name)}
    IN  IF found = {} THEN 0 ELSE CHOOSE j \in found : \A q \in found : q <= j

\* index of the first header equal to column_name.upper(); 0 stands for None
RECURSIVE find_from(_, _, _)
find_from(keys, upper_name, i) ==
    IF i > Len(keys) THEN 0
    ELSE IF keys[i] = Str(upper_name) THEN i
    ELSE find_from(keys, upper_name, i + 1)

find_in_keys(keys, column_name) == find_from(keys, upper(column_name), 1)

find_column_index(hs, column_name) == find_in_keys(header_keys(hs), column_name)

Range(q) == {q[i] : i \in 1..Len(q)}

\* direct_mappings.keys()
mapping_keys(fmt) ==
    LET maps == direct_mappings(fmt) IN [i \in 1..Len(maps) |-> maps[i][1]]

\* the names looked up by find_column_index
columns_to_find(fmt, hs) ==
    IF fmt = "LIST_OF_UNIT" THEN mapping_keys(fmt)
    ELSE IF fmt = "COLON YARD"
    THEN mapping_keys(fmt) \o seal_columns(fmt, hs) \o slot_columns
    ELSE mapping_keys(fmt) \o seal_columns(fmt, hs)

\* source_col_indices[f'SEAL_COL_{col_idx}'] = col_idx, for idx[i..]
RECURSIVE seal_col_entries(_, _)
seal_col_entries(idx, i) ==
    IF i > Len(idx) THEN <<>>
    ELSE (seal_col_key(idx[i]) :> idx[i]) @@ seal_col_entries(idx, i + 1)

\* cols after the lookups of names[i..] in the upper-cased header cells
RECURSIVE find_columns(_, _, _, _)
find_columns(cols, keys, names, i) ==
    IF i > Len(names) THEN cols
    ELSE LET idx == find_in_keys(keys, names[i])
         IN  find_columns(IF idx # 0 THEN (names[i] :> idx) @@ cols ELSE cols,
                          keys, names, i + 1)

\* the dict source_col_indices after the lookups (the header cells are
\* upper-cased once for all the names)
resolve_columns(fmt, hs) ==
    find_columns(IF fmt = "LIST_OF_UNIT"
                 THEN seal_col_entries(seal_col_indices(hs), 1) ELSE <<>>,
                 header_keys(hs), columns_to_find(fmt, hs), 1)

\* the Unit-or-Container rule of RODMAN applied to every format
container_col_name_unit_or_container(fmt, cols) ==
    IF "Unit" \in DOMAIN cols THEN "Unit" ELSE "Container"

container_col_name(fmt, cols) ==
    IF fmt \in {"RODMAN", "RODMAN_CONVERTED"}
    THEN IF "Unit" \in DOMAIN cols THEN "Unit" ELSE "Container"
    ELSE IF fmt = "UNITLIST" THEN "Unit"
    ELSE IF fmt = "PISCO" THEN "CtrNbr"
    ELSE IF fmt = "LIST_OF_UNIT" THEN "UNIT"
    ELSE IF fmt = "COLON YARD" THEN "Container No"
    ELSE "CONTENEDOR"

\* the voyage column the filter reads (UNITLIST only); 0 stands for None
voyage_col_of(fmt, cols, vfilters) ==
    IF fmt = "UNITLIST" /\ vfilters # <<>>
    THEN IF "Voyage Out" \in DOMAIN cols THEN cols["Voyage Out"]
         ELSE IF "Voyage In" \in DOMAIN cols THEN cols["Voyage In"]
         ELSE 0
    ELSE 0

\* the carrier column the filter reads (COLON YARD only); 0 stands for None
carrier_col_of(fmt, cols, cfilters) ==
    IF fmt = "COLON YARD" /\ cfilters # <<>> /\ "Dept Carrier" \in DOMAIN cols
    THEN cols["Dept Carrier"]
    ELSE 0

-----------------------------------------------------------------------------
(* convert: one iteration of the row loop *)

value_at(ws, r, cols, name) == get_non_empty_value(Cell(ws, r, cols[name]))

\* a row with an empty voyage let through the voyage filter
voyage_mismatch_blank_passes(v, filters) ==
    v # None /\ ~ (IsStr(v) /\ \E i \in 1..Len(filters) : filters[i] = v.v)

\* voyage_value not in voyage_filters
voyage_mismatch(v, filters) ==
    ~ (IsStr(v) /\ \E i \in 1..Len(filters) : filters[i] = v.v)

\* the filter terms and the carrier compared as they are written
carrier_matches_case_sensitive(v, filters) ==
    \E i \in 1..Len(filters) : contains(filters[i], str(v))

\* some filter term, upper-cased, is a substring of the upper-cased carrier
carrier_matches(v, filters) ==
    \E i \in 1..Len(filters) : contains(upper(filters[i]), upper(str(v)))

\* the MSC check is made only when the sheet has a Carrier column
msc_rejects(ws, r, fmt, cols) ==
    /\ fmt = "COLON YARD"
    /\ "Carrier" \in DOMAIN cols
    /\ LET msc_carrier_value == value_at(ws, r, cols, "Carrier")
       IN  ~ truthy(msc_carrier_value) \/ upper(str(msc_carrier_value)) # "MSC"

\* an empty container skipped in every run, filtered or not
row_outcome_never_stops(ws, r, fmt, cols, ccol, vcol, ccar, vfilters, cfilters) ==
    LET container_value == get_non_empty_value(Cell(ws, r, ccol))
    IN  IF container_value = None THEN "blank"
        ELSE IF vcol # 0 /\ vfilters # <<>>
                /\ voyage_mismatch(get_non_empty_value(Cell(ws, r, vcol)), vfilters)
        THEN "voyage"
        ELSE IF ccar # 0 /\ cfilters # <<>>
                /\ LET carrier_value == get_non_empty_value(Cell(ws, r, ccar))
                   IN  ~ truthy(carrier_value)
                       \/ ~ carrier_matches(carrier_value, cfilters)
        THEN "carrier"
        ELSE IF msc_rejects(ws, r, fmt, cols) THEN "msc"
        ELSE "accept"

\* an empty container ending every run, filtered or not
row_outcome_always_stops(ws, r, fmt, cols, ccol, vcol, ccar, vfilters, cfilters) ==
    LET container_value == get_non_empty_value(Cell(ws, r, ccol))
    IN  IF container_value = None THEN "stop"
        ELSE IF vcol # 0 /\ vfilters # <<>>
                /\ voyage_mismatch(get_non_empty_value(Cell(ws, r, vcol)), vfilters)
        THEN "voyage"
        ELSE IF ccar # 0 /\ cfilters # <<>>
                /\ LET carrier_value == get_non_empty_value(Cell(ws, r, ccar))
                   IN  ~ truthy(carrier_value)
                       \/ ~ carrier_matches(carrier_value, cfilters)
        THEN "carrier"
        ELSE IF msc_rejects(ws, r, fmt, cols) THEN "msc"
        ELSE "accept"

\* what the loop body does with source row r:
\* "stop" (break), "blank" (continue on an empty container), "voyage",
\* "carrier", "msc" (continue, counted as skipped) or "accept"
\* an empty container skipped whenever filters are passed, in any format
row_outcome_filters_passed(ws, r, fmt, cols, ccol, vcol, ccar, vfilters, cfilters) ==
    LET container_value == get_non_empty_value(Cell(ws, r, ccol))
    IN  IF container_value = None
        THEN IF vfilters = <<>> /\ cfilters = <<>> THEN "stop" ELSE "blank"
        ELSE IF vcol # 0 /\ vfilters # <<>>
                /\ voyage_mismatch(get_non_empty_value(Cell(ws, r, vcol)), vfilters)
        THEN "voyage"
        ELSE IF ccar # 0 /\ cfilters # <<>>
                /\ LET carrier_value == get_non_empty_value(Cell(ws, r, ccar))
                   IN  ~ truthy(carrier_value)
                       \/ ~ carrier_matches(carrier_value, cfilters)
        THEN "carrier"
        ELSE IF msc_rejects(ws, r, fmt, cols) THEN "msc"
        ELSE "accept"

row_outcome(ws, r, fmt, cols, ccol, vcol, ccar, vfilters, cfilters) ==
    LET container_value == get_non_empty_value(Cell(ws, r, ccol))
    IN  IF container_value = None
        THEN IF vcol = 0 /\ ccar = 0 THEN "stop" ELSE "blank"
        ELSE IF vcol # 0 /\ vfilters # <<>>
                /\ voyage_mismatch(get_non_empty_value(Cell(ws, r, vcol)), vfilters)
        THEN "voyage"
        ELSE IF ccar # 0 /\ cfilters # <<>>
                /\ LET carrier_value == get_non_empty_value(Cell(ws, r, ccar))
                   IN  ~ truthy(carrier_value)
                       \/ ~ carrier_matches(carrier_value, cfilters)
        THEN "carrier"
        ELSE IF msc_rejects(ws, r, fmt, cols) THEN "msc"
        ELSE "accept"

\* the value a direct mapping writes (None: nothing is written)
mapped_value(ws, r, fmt, cols, source_col, template_col_name) ==
    IF source_col \notin DOMAIN cols THEN None
    ELSE LET value == value_at(ws, r, cols, source_col)
         IN  IF template_col_name = "POL" /\ fmt = "UNITLIST"
             THEN Str("PSA-RODMAN")
             ELSE IF template_col_name = "POL" /\ fmt = "LISTADO"
             THEN Str("ECGYE")
             ELSE IF template_col_name = "POL"
                     /\ fmt \in {"RODMAN", "RODMAN_CONVERTED"} /\ value = None
             THEN Str("RODMAN")
             ELSE value

\* a field whose value is None written to its cell all the same
RECURSIVE copy_direct_writes_none(_, _, _, _, _, _, _)
copy_direct_writes_none(out, maps, i, ws, r, fmt, cols) ==
    IF i > Len(maps) THEN out
    ELSE LET source_col == maps[i][1]
             template_col_name == maps[i][2]
             value == mapped_value(ws, r, fmt, cols, source_col, template_col_name)
         IN  IF template_col_name = NoTemplateCol \/ source_col \notin DOMAIN cols
             THEN copy_direct_writes_none(out, maps, i + 1, ws, r, fmt, cols)
             ELSE copy_direct_writes_none(
                      [out EXCEPT ![template_cols[template_col_name]] = value],
                      maps, i + 1, ws, r, fmt, cols)

\* the output row after the direct mappings maps[i..] have been copied
RECURSIVE copy_direct(_, _, _, _, _, _, _)
copy_direct(out, maps, i, ws, r, fmt, cols) ==
    IF i > Len(maps) THEN out
    ELSE LET source_col == maps[i][1]
             template_col_name == maps[i][2]
             value == mapped_value(ws, r, fmt, cols, source_col, template_col_name)
         IN  IF template_col_name = NoTemplateCol \/ value = None
             THEN copy_direct(out, maps, i + 1, ws, r, fmt, cols)
             ELSE copy_direct(
                      [out EXCEPT ![template_cols[template_col_name]] = value],
                      maps, i + 1, ws, r, fmt, cols)

\* every slot part padded to two characters, Block and Tier included
RECURSIVE merged_slot_from_pads_every_part(_, _, _, _)
merged_slot_from_pads_every_part(i, ws, r, cols) ==
    IF i > Len(slot_columns) THEN ""
    ELSE LET slot_col == slot_columns[i]
             rest == merged_slot_from_pads_every_part(i + 1, ws, r, cols)
         IN  IF slot_col \notin DOMAIN cols THEN rest
             ELSE LET slot_value == value_at(ws, r, cols, slot_col)
                  IN  IF ~ truthy(slot_value) THEN rest
                      ELSE zfill2(str(slot_value)) \o rest

\* slot_parts joined, for the slot columns i.. (COLON YARD)
RECURSIVE merged_slot_from(_, _, _, _)
merged_slot_from(i, ws, r, cols) ==
    IF i > Len(slot_columns) THEN ""
    ELSE LET slot_col == slot_columns[i]
             rest == merged_slot_from(i + 1, ws, r, cols)
         IN  IF slot_col \notin DOMAIN cols THEN rest
             ELSE LET slot_value == value_at(ws, r, cols, slot_col)
                  IN  IF ~ truthy(slot_value) THEN rest
                      ELSE IF slot_col \in {"Current LOC Bay", "Current LOC Row"}
                      THEN zfill2(str(slot_value)) \o rest
                      ELSE str(slot_value) \o rest

write_slot(out, ws, r, fmt, cols) ==
    IF fmt # "COLON YARD" THEN out
    ELSE LET merged_slot == merged_slot_from(1, ws, r, cols)
         IN  IF merged_slot = "" THEN out
             ELSE [out EXCEPT ![template_cols["Slot"]] = Str(merged_slot)]

-----------------------------------------------------------------------------
(* convert: seals of one row *)

\* the '/' truncation applied to COLON YARD sheets as well
slash_formats_with_colon_yard ==
    {"RODMAN", "RODMAN_CONVERTED", "UNITLIST", "COLON YARD"}

\* the formats whose seal cells read "seal / type / origin"
slash_formats == {"RODMAN", "RODMAN_CONVERTED", "UNITLIST"}

\* the value collected from one seal column (None: nothing is collected)
seal_value(ws, r, fmt, cols, seal_col) ==
    IF seal_col \notin DOMAIN cols THEN None
    ELSE LET value == value_at(ws, r, cols, seal_col)
         IN  IF truthy(value) /\ contains("/", str(value)) /\ fmt \in slash_formats
             THEN LET cut == strip(before_slash(str(value)))
                  IN  IF cut = "" THEN None ELSE Str(cut)
             ELSE value

\* every collected value appended, seen before or not
append_seal_no_dedup(seals_list, value) ==
    IF value # None THEN Append(seals_list, value) ELSE seals_list

\* seals_list after one more collected value
append_seal(seals_list, value) ==
    IF value # None /\ value \notin Range(seals_list)
    THEN Append(seals_list, value)
    ELSE seals_list

\* seals_list after the seal columns i.. have been read
RECURSIVE collect_seals(_, _, _, _, _, _, _)
collect_seals(seals_list, seal_cols, i, ws, r, fmt, cols) ==
    IF i > Len(seal_cols) THEN seals_list
    ELSE collect_seals(
             append_seal(seals_list, seal_value(ws, r, fmt, cols, seal_cols[i])),
             seal_cols, i + 1, ws, r, fmt, cols)

SealSeparator == "  ;  "

\* the sixth and later seals overwrite Seal 5 instead of being joined to it
write_one_seal_overwriting(out, i, seal) ==
    IF i <= 4 THEN [out EXCEPT ![5 + i] = seal]
    ELSE [out EXCEPT ![template_cols["Seal 5"]] = seal]

\* the output row after seals_list[i] (1-based) has been written
write_one_seal(out, i, seal) ==
    IF i <= 4 THEN [out EXCEPT ![5 + i] = seal]
    ELSE IF i = 5 THEN [out EXCEPT ![template_cols["Seal 5"]] = seal]
    ELSE [out EXCEPT ![template_cols["Seal 5"]] =
              Str(str(out[template_cols["Seal 5"]]) \o SealSeparator \o str(seal))]

RECURSIVE write_seals(_, _, _)
write_seals(out, seals_list, i) ==
    IF i > Len(seals_list) THEN out
    ELSE write_seals(write_one_seal(out, i, seals_list[i]), seals_list, i + 1)

\* seal_distribution after a row with num_seals seals
count_seals(dist, num_seals) ==
    IF num_seals = 0 THEN dist
    ELSE IF num_seals \in DOMAIN dist
         THEN [dist EXCEPT ![num_seals] = @ + 1]
         ELSE dist @@ (num_seals :> 1)

-----------------------------------------------------------------------------
(* convert: template, result *)

TemplateHeader ==
    << Str("Container"), Str("POL"), Str("POD"), Str("Type"), Str("Slot"),
       Str("Seal 1"), Str("Seal 2"), Str("Seal 3"), Str("Seal 4"), Str("Seal 5") >>

EmptyRow == [c \in 1..10 |-> None]

\* the sheet of the template file: the header row over empty rows
TemplateSheet ==
    [r \in 1..(NDataRows + 3) |-> IF r = 1 THEN TemplateHeader ELSE EmptyRow]

OutputPath == "out.xlsx"

Pending == [k |-> "pending"]
NoResult == [k |-> "none"]

ZeroResult ==
    [k |-> "result", containers |-> 0, seals |-> 0, output |-> None,
     distribution |-> <<>>]

\* the POL cell returned as it is written
get_pol_value_as_written(ws) ==
    LET pol == Cell(ws, 2, 2)
    IN  IF truthy(pol) THEN pol ELSE None

get_pol_value(ws) ==
    LET pol == Cell(ws, 2, 2)
    IN  IF truthy(pol) THEN Str(upper(strip(str(pol)))) ELSE None

-----------------------------------------------------------------------------
(* convert: the messages given to log() *)

SourceName == "source.xlsx"
TemplateName == "template.xlsx"

\* log(message) for each message of a sequence, in order
emit(messages) == IF progress_callback THEN log \o messages ELSE log

\* ', '.join(filters)
RECURSIVE join_filters(_)
join_filters(filters) ==
    IF filters = <<>> THEN ""
    ELSE IF Len(filters) = 1 THEN filters[1]
    ELSE filters[1] \o ", " \o join_filters(Tail(filters))

start_messages ==
    << "STARTING CONVERSION", "Source: " \o SourceName,
       "Template: " \o TemplateName, "Loading template...", "Loading source..." >>

detected_message(fmt, start_row) ==
    "Detected " \o fmt \o " format (headers in row " \o nat_str(start_row - 1) \o ")"

found_message(cols) == "Found " \o nat_str(Cardinality(DOMAIN cols)) \o " columns"

column_error_message(name) == "ERROR: " \o name \o " column not found!"

\* the messages between the column lookup and the row loop
filter_messages(fmt, cols, name, vfilters, cfilters) ==
    LET vcol == IF fmt = "UNITLIST" /\ vfilters # <<>>
                THEN IF "Voyage Out" \in DOMAIN cols THEN "Voyage Out"
                     ELSE IF "Voyage In" \in DOMAIN cols THEN "Voyage In" ELSE ""
                ELSE ""
        ccol == fmt = "COLON YARD" /\ cfilters # <<>> /\ "Dept Carrier" \in DOMAIN cols
    IN  (IF vcol # ""
         THEN <<"Filtering by " \o vcol \o ": " \o join_filters(vfilters)>>
         ELSE <<>>)
        \o (IF ccol
            THEN <<"Filtering by Dept Carrier: " \o join_filters(cfilters)>>
            ELSE <<>>)
        \o (IF fmt \notin {"UNITLIST", "COLON YARD"}
               /\ (vfilters # <<>> \/ cfilters # <<>>)
            THEN <<"Voyage filters ignored for " \o fmt \o " format">>
            ELSE <<>>)
        \o <<"Processing rows...">>
        \o (IF vcol # "" THEN <<"(Filtering by Voyage column)">>
            ELSE IF ccol THEN <<"(Filtering by Dept Carrier column)">>
            ELSE <<"(Stops at first empty " \o name \o ")">>)

stopped_message(row, name) ==
    "Stopped at row " \o nat_str(row) \o " (empty " \o name \o ")"

progress_message(found, seals) ==
    nat_str(found) \o " containers, " \o nat_str(seals) \o " seals..."

empty_run_messages ==
    <<"No containers found matching the filter criteria", "Output file NOT created">>

saving_messages == <<"Saving: " \o OutputPath, "Location: .">>

completed_messages(found, skipped, seals) ==
    <<"Normalizing file...", "CONVERSION COMPLETED!", "STATISTICS:",
      "Containers: " \o nat_str(found)>>
    \o (IF skipped > 0 THEN <<"Skipped (filtered): " \o nat_str(skipped)>> ELSE <<>>)
    \o <<"Seals: " \o nat_str(seals), "OUTPUT:", OutputPath>>

exception_messages == <<"ERROR: exception", "Traceback (most recent call last)">>

-----------------------------------------------------------------------------
(* convert: the call, step by step *)

\* load the template and the source, detect the format
LoadAndDetect ==
    /\ pc = "start"
    /\ ws_template' = template_path
    /\ LET d == detect_file_format(ws_source)
       IN  /\ file_format' = d.file_format
           /\ headers' = d.headers
           /\ data_start_row' = d.data_start_row
           /\ log' = emit(start_messages
                          \o <<detected_message(d.file_format, d.data_start_row)>>)
    /\ pc' = "resolve"
    /\ UNCHANGED <<inputs, gui, pure, concurrent, raised, source_col_indices, container_col_idx,
                   voyage_col_idx, carrier_col_idx, containers_found,
                   containers_skipped, total_seals, seal_distribution,
                   output_row, source_row, result, out_file, examined, accepted>>

\* find the columns; return None when the container column is missing
ResolveColumns ==
    /\ pc = "resolve"
    /\ source_col_indices' = resolve_columns(file_format, headers)
    /\ LET cols == source_col_indices'
           name == container_col_name(file_format, cols)
       IN  IF name \notin DOMAIN cols
           THEN /\ result' = NoResult
                /\ pc' = "done"
                /\ log' = emit(<<found_message(cols), column_error_message(name)>>)
                /\ UNCHANGED <<container_col_idx, voyage_col_idx,
                               carrier_col_idx, source_row>>
           ELSE /\ container_col_idx' = cols[name]
                /\ voyage_col_idx' = voyage_col_of(file_format, cols, voyage_filters)
                /\ carrier_col_idx' =
                       carrier_col_of(file_format, cols, carrier_filters)
                /\ source_row' = data_start_row
                /\ pc' = "loop"
                /\ log' = emit(<<found_message(cols)>>
                               \o filter_messages(file_format, cols, name,
                                                  voyage_filters, carrier_filters))
                /\ UNCHANGED result
    /\ containers_found' = 0
    /\ containers_skipped' = 0
    /\ total_seals' = 0
    /\ seal_distribution' = <<>>
    /\ output_row' = 2
    /\ UNCHANGED <<inputs, gui, pure, concurrent, raised, file_format, headers, data_start_row,
                   ws_template, out_file, examined, accepted>>

\* a row with an empty container counted as skipped too
skip_counted_with_blank(outcome) == outcome \in {"blank", "voyage", "carrier", "msc"}

\* the outcomes on which containers_skipped += 1 is run
skip_counted(outcome) == outcome \in {"voyage", "carrier", "msc"}

\* accepted containers between two running-count messages
ProgressInterval == 100

\* a running-count message after every accepted row
progress_due_every_row(found) == TRUE

\* containers_found % 100 == 0, tested at the end of an accepted row
progress_due(found) == found % ProgressInterval = 0

\* the cursor left where it is when a row is accepted
next_output_row_unmoved(row) == row

\* output_row += 1, at the end of an accepted row
next_output_row(row) == row + 1

\* one iteration of "for source_row in range(data_start_row, max_row + 1)"
ProcessRow ==
    /\ pc = "loop"
    /\ source_row <= max_row(ws_source)
    /\ LET outcome == row_outcome(ws_source, source_row, file_format,
                                  source_col_indices, container_col_idx,
                                  voyage_col_idx, carrier_col_idx,
                                  voyage_filters, carrier_filters)
           seals_list == collect_seals(<<>>, seal_columns(file_format, headers), 1,
                                       ws_source, source_row, file_format,
                                       source_col_indices)
           copied == copy_direct(ws_template[output_row],
                                 direct_mappings(file_format), 1, ws_source,
                                 source_row, file_format, source_col_indices)
           slotted == write_slot(copied, ws_source, source_row, file_format,
                                 source_col_indices)
       IN  /\ examined' = examined \cup {source_row}
           /\ pc' = IF outcome = "stop" THEN "end_loop" ELSE "loop"
           /\ source_row' = IF outcome = "stop" THEN source_row ELSE source_row + 1
           /\ containers_skipped' =
                  IF skip_counted(outcome)
                  THEN containers_skipped + 1 ELSE containers_skipped
           /\ IF outcome = "accept"
              THEN /\ containers_found' = containers_found + 1
                   /\ ws_template' =
                          [ws_template EXCEPT
                              ![output_row] = write_seals(slotted, seals_list, 1)]
                   /\ total_seals' = total_seals + Len(seals_list)
                   /\ seal_distribution' =
                          count_seals(seal_distribution, Len(seals_list))
                   /\ output_row' = next_output_row(output_row)
                   /\ accepted' = Append(accepted, source_row)
              ELSE UNCHANGED <<containers_found, ws_template, total_seals,
                               seal_distribution, output_row, accepted>>
           /\ log' =
                  IF outcome = "stop"
                  THEN emit(<<stopped_message(
                                 source_row,
                                 container_col_name(file_format, source_col_indices))>>)
                  ELSE IF outcome = "accept" /\ progress_due(containers_found + 1)
                  THEN emit(<<progress_message(containers_found + 1,
                                               total_seals + Len(seals_list))>>)
                  ELSE log
    /\ UNCHANGED <<inputs, gui, pure, concurrent, raised, file_format, headers, data_start_row,
                   source_col_indices, container_col_idx, voyage_col_idx,
                   carrier_col_idx, result, out_file>>

\* the template saved whether or not a row was accepted
FinishLoop_saves_empty_output ==
    /\ pc = "end_loop" \/ (pc = "loop" /\ source_row > max_row(ws_source))
    /\ out_file' = "saved"
    /\ pc' = "normalize"
    /\ log' = emit(saving_messages)
    /\ UNCHANGED result
    /\ UNCHANGED <<inputs, gui, pure, concurrent, raised, file_format, headers, data_start_row,
                   source_col_indices, container_col_idx, voyage_col_idx,
                   carrier_col_idx, containers_found, containers_skipped,
                   total_seals, seal_distribution, output_row, source_row,
                   ws_template, examined, accepted>>

\* after the loop: return the empty result, or save the template
FinishLoop ==
    /\ pc = "end_loop" \/ (pc = "loop" /\ source_row > max_row(ws_source))
    /\ IF containers_found = 0
       THEN /\ result' = ZeroResult
            /\ pc' = "done"
            /\ log' = emit(empty_run_messages)
            /\ UNCHANGED out_file
       ELSE /\ out_file' = "saved"
            /\ pc' = "normalize"
            /\ log' = emit(saving_messages)
            /\ UNCHANGED result
    /\ UNCHANGED <<inputs, gui, pure, concurrent, raised, file_format, headers, data_start_row,
                   source_col_indices, container_col_idx, voyage_col_idx,
                   carrier_col_idx, containers_found, containers_skipped,
                   total_seals, seal_distribution, output_row, source_row,
                   ws_template, examined, accepted>>

\* reload the saved file, save it again, return the statistics
NormalizeAndReturn ==
    /\ pc = "normalize"
    /\ out_file' = "normalized"
    /\ result' = [k |-> "result", containers |-> containers_found,
                  seals |-> total_seals, output |-> Str(OutputPath),
                  distribution |-> seal_distribution,
                  pol |-> get_pol_value(ws_template)]
    /\ log' = emit(completed_messages(containers_found, containers_skipped,
                                      total_seals))
    /\ pc' = "done"
    /\ UNCHANGED <<inputs, gui, pure, concurrent, raised, file_format, headers, data_start_row,
                   source_col_indices, container_col_idx, voyage_col_idx,
                   carrier_col_idx, containers_found, containers_skipped,
                   total_seals, seal_distribution, output_row, source_row,
                   ws_template, examined, accepted>>

Next ==
    \/ LoadAndDetect
    \/ ResolveColumns
    \/ ProcessRow
    \/ FinishLoop
    \/ NormalizeAndReturn

\* the call is about to save the template: the loop is over with a row accepted
AtSave ==
    /\ pc = "end_loop" \/ (pc = "loop" /\ source_row > max_row(ws_source))
    /\ containers_found > 0

\* what an exception raised at this point leaves at output_path: nothing is
\* written before the save; a save that fails has created no file or a partial
\* one; after the save the file is there, whole or cut short by the second save
files_after_exception ==
    IF pc = "normalize" THEN {"saved", "partial"}
    ELSE IF AtSave THEN {"absent", "partial"}
    ELSE {out_file}

\* the messages logged in the try block before an exception raised at this point
messages_before_exception ==
    IF pc = "start"
    THEN {SubSeq(start_messages, 1, 4), start_messages}
    ELSE IF pc = "normalize" THEN {<<"Normalizing file...">>}
    ELSE IF AtSave THEN {saving_messages}
    ELSE {<<>>}

\* an exception raised by the step the call is at: "except Exception" logs it
\* and returns None
RaiseException ==
    /\ pc \in {"start", "resolve", "loop", "end_loop", "normalize"}
    /\ \E f \in files_after_exception : out_file' = f
    /\ \E before \in messages_before_exception :
          log' = emit(before \o exception_messages)
    /\ raised' = TRUE
    /\ result' = NoResult
    /\ pc' = "done"
    /\ UNCHANGED <<inputs, gui, pure, concurrent, file_format, headers, data_start_row,
                   source_col_indices, container_col_idx, voyage_col_idx,
                   carrier_col_idx, containers_found, containers_skipped,
                   total_seals, seal_distribution, output_row, source_row,
                   ws_template, examined, accepted>>

NextOrException ==
    \/ Next
    \/ RaiseException

-----------------------------------------------------------------------------
(* convert: the call as a function of its locals, for calls that run together *)

\* openpyxl.load_workbook(path) gives a new workbook instance: its reference
load_workbook_cached(books) == 1

load_workbook(books) == Len(books) + 1

\* the locals of a call that has not started (no progress callback)
new_call(ws, vfilters, cfilters, path) ==
    [ws_source |-> ws, voyage_filters |-> vfilters, carrier_filters |-> cfilters,
     output_path |-> path, pc |-> "start", wb_template |-> 0,
     file_format |-> "", headers |-> <<>>, data_start_row |-> 0,
     source_col_indices |-> <<>>,
     container_col_idx |-> 0, voyage_col_idx |-> 0, carrier_col_idx |-> 0,
     containers_found |-> 0, containers_skipped |-> 0, total_seals |-> 0,
     seal_distribution |-> <<>>, output_row |-> 0, source_row |-> 0,
     accepted |-> <<>>, result |-> Pending]

\* the call after it has loaded the template as wb, loaded the source,
\* detected the format and found the columns
start_call(c, wb) ==
    LET d == detect_file_format(c.ws_source)
        cols == resolve_columns(d.file_format, d.headers)
        name == container_col_name(d.file_format, cols)
        found == name \in DOMAIN cols
    IN  [c EXCEPT
            !.wb_template = wb,
            !.file_format = d.file_format,
            !.headers = d.headers,
            !.data_start_row = d.data_start_row,
            !.source_col_indices = cols,
            !.container_col_idx = IF found THEN cols[name] ELSE 0,
            !.voyage_col_idx =
                IF found THEN voyage_col_of(d.file_format, cols, c.voyage_filters)
                ELSE 0,
            !.carrier_col_idx =
                IF found THEN carrier_col_of(d.file_format, cols, c.carrier_filters)
                ELSE 0,
            !.output_row = 2,
            !.source_row = d.data_start_row,
            !.pc = IF found THEN "loop" ELSE "done",
            !.result = IF found THEN Pending ELSE NoResult]

\* the call and its template sheet after one iteration of the row loop
row_call(c, sheet) ==
    LET outcome == row_outcome(c.ws_source, c.source_row, c.file_format,
                               c.source_col_indices, c.container_col_idx,
                               c.voyage_col_idx, c.carrier_col_idx,
                               c.voyage_filters, c.carrier_filters)
        seals_list == collect_seals(<<>>, seal_columns(c.file_format, c.headers), 1,
                                    c.ws_source, c.source_row, c.file_format,
                                    c.source_col_indices)
        copied == copy_direct(sheet[c.output_row], direct_mappings(c.file_format),
                              1, c.ws_source, c.source_row, c.file_format,
                              c.source_col_indices)
        slotted == write_slot(copied, c.ws_source, c.source_row, c.file_format,
                              c.source_col_indices)
    IN  IF outcome = "stop"
        THEN [call |-> [c EXCEPT !.pc = "end_loop"], sheet |-> sheet]
        ELSE IF outcome = "accept"
        THEN [call |-> [c EXCEPT
                           !.containers_found = @ + 1,
                           !.total_seals = @ + Len(seals_list),
                           !.seal_distribution = count_seals(@, Len(seals_list)),
                           !.output_row = next_output_row(@),
                           !.accepted = Append(@, c.source_row),
                           !.source_row = @ + 1],
              sheet |-> [sheet EXCEPT
                            ![c.output_row] = write_seals(slotted, seals_list, 1)]]
        ELSE [call |-> [c EXCEPT
                           !.containers_skipped =
                               IF skip_counted(outcome) THEN @ + 1 ELSE @,
                           !.source_row = @ + 1],
              sheet |-> sheet]

\* the row loop of the call is over
loop_over(c) ==
    c.pc = "end_loop" \/ (c.pc = "loop" /\ c.source_row > max_row(c.ws_source))

\* the call after the loop: the empty result, or the template saved,
\* normalized and the statistics returned; file is what is at output_path
finish_call(c, sheet) ==
    IF c.containers_found = 0
    THEN [call |-> [c EXCEPT !.pc = "done", !.result = ZeroResult],
          saved |-> FALSE, file |-> <<>>]
    ELSE [call |-> [c EXCEPT
                       !.pc = "done",
                       !.result = [k |-> "result",
                                   containers |-> c.containers_found,
                                   seals |-> c.total_seals,
                                   output |-> Str(c.output_path),
                                   distribution |-> c.seal_distribution,
                                   pol |-> get_pol_value(sheet)]],
          saved |-> TRUE, file |-> sheet]

\* the rows left to the loop, processed one after the other
RECURSIVE rows_alone(_, _)
rows_alone(c, sheet) ==
    IF c.pc = "loop" /\ c.source_row <= max_row(c.ws_source)
    THEN LET n == row_call(c, sheet) IN rows_alone(n.call, n.sheet)
    ELSE [call |-> c, sheet |-> sheet]

\* the call run from start to end with nothing else running: its locals at the
\* end, its template sheet and the file at its output path
ended_alone(e, f) == [call |-> f.call, sheet |-> e.sheet, file |-> f.file]

looped_alone(e) == ended_alone(e, finish_call(e.call, e.sheet))

started_alone(started) ==
    IF started.pc = "done"
    THEN [call |-> started, sheet |-> TemplateSheet, file |-> <<>>]
    ELSE looped_alone(rows_alone(started, TemplateSheet))

run_alone(c) == started_alone(start_call(c, 1))

\* a call loads the template and the source and gets to its row loop
InvocationStarts(p) ==
    /\ invocations[p].pc = "start"
    /\ LET wb == load_workbook(workbooks)
       IN  /\ workbooks' = IF wb > Len(workbooks)
                           THEN Append(workbooks, TemplateSheet)
                           ELSE workbooks
           /\ invocations' = [invocations EXCEPT ![p] = start_call(@, wb)]
    /\ UNCHANGED <<inputs, gui, pc, locals, pure, files>>

\* a call processes one source row, writing into its template instance
InvocationProcessesRow(p) ==
    LET c == invocations[p]
    IN  /\ c.pc = "loop"
        /\ c.source_row <= max_row(c.ws_source)
        /\ LET n == row_call(c, workbooks[c.wb_template])
           IN  /\ invocations' = [invocations EXCEPT ![p] = n.call]
               /\ workbooks' = [workbooks EXCEPT ![c.wb_template] = n.sheet]
        /\ UNCHANGED <<inputs, gui, pc, locals, pure, files>>

\* a call ends: it saves its template instance at its output path and returns
InvocationFinishes(p) ==
    LET c == invocations[p]
    IN  /\ loop_over(c)
        /\ LET f == finish_call(c, workbooks[c.wb_template])
           IN  /\ invocations' = [invocations EXCEPT ![p] = f.call]
               /\ files' = IF f.saved THEN [files EXCEPT ![c.output_path] = f.file]
                           ELSE files
        /\ UNCHANGED <<inputs, gui, pc, locals, pure, workbooks>>

NextInvocations ==
    \E p \in DOMAIN invocations :
        \/ InvocationStarts(p)
        \/ InvocationProcessesRow(p)
        \/ InvocationFinishes(p)

-----------------------------------------------------------------------------
(* Worksheets the runs are checked on *)

Strs(q) == [i \in 1..Len(q) |-> IF q[i] = "" THEN None ELSE Str(q[i])]

\* a sheet: the rows above the header row, the header row, the rows between
\* it and the first data row, then n data rows drawn from rows
SheetsOf(n, above, hdr, gap, rows) ==
    { above \o <<hdr>> \o [i \in 1..gap |-> <<>>] \o [i \in 1..n |-> f[i]] :
        f \in [1..n -> rows] }

\* row q without its column c
drop_col(q, c) == [i \in 1..(Len(q) - 1) |-> IF i < c THEN q[i] ELSE q[i + 1]]

GateInHeader == Strs(<<"CONTENEDOR", "PortLoad", "NAVIERO", "SEAL 2">>)
GateInRows ==
    { <<Str("A1"), Str("PAMIT"), Str("S1"), Str("S1")>>,
      <<Str("A2"), None, Str("S2"), Str("S3")>>,
      <<Str(""), Str("PAMIT"), Str("S4"), None>>,
      <<Str("A3"), Str(" pamit "), Num(7), Str("0")>> }

UnitListHeader ==
    Strs(<<"Unit", "POL", "Voyage In", "Voyage Out", "Seal 1 / type / origin",
           "Seal 2 / type / origin">>)
UnitListRows ==
    { <<Str("A1"), Str("PAROD"), Str("V9"), Str("V1"), Str("S1 / T / O"), Str("S1")>>,
      <<Str("A2"), None, Str("V1"), Str("V2"), Str("S2"), Str("/ T / O")>>,
      <<Str(" "), None, Str("V1"), Str("V1"), None, None>>,
      <<Str("A3"), Str("XX"), Str("V1"), None, Str("S3/T"), Str("S4")>> }

ColonYardHeader ==
    Strs(<<"Container No", "POL", "Dept Carrier", "Carrier",
           "Current LOC Block", "Current LOC Bay", "Seal No. 1">>)
ColonYardRows ==
    { <<Str("A1"), Str("PACCT"), Str("Maersk Line"), Str("MSC"),
        Str("A"), Num(3), Str("S1")>>,
      <<Str("A2"), None, Str("Mediterranean"), Str(" msc"),
        None, Str("12"), Str("S2/x")>>,
      <<None, None, Str("Mediterranean"), Str("MSC"), None, None, None>>,
      <<Str("A3"), Str("PACCT"), Str("MSC Med"), Str("CMA"),
        Str("B"), Num(7), None>>,
      <<Str("A4"), Str("PACCT"), None, None, Str("C"), None, Str("S4")>> }

ListadoTitle == <<Str("LISTADO DE CONTENEDORES")>>
ListadoHeader == Strs(<<"CONTENEDOR", "POT (PUERTO DE DESCARGA)", "NAVIERO", "Sello2">>)
ListadoRows ==
    { <<Str("A1"), Str("PEPIO"), Str("S1"), Str("S2")>>,
      <<Str("A2"), None, Str("S2"), Str("S2")>>,
      <<Str("0"), Str("PEPIO"), Str("S3"), None>>,
      <<Str("A3"), Str("ecgye"), None, Str("S/4")>> }

RodmanHeader ==
    Strs(<<"Unit", "Container", "POL", "Slot (Yard)",
           "Seal 1 / type / origin", "Seal 1">>)
RodmanRows ==
    { <<Str("A1"), Str("B1"), Str("PAROD"), Str("Y1"), Str("S1 / T / O"), Str("S1")>>,
      <<Str("A2"), None, None, None, Str("S2/T"), Str("S3")>>,
      <<None, Str("B3"), Str("PAROD"), Str("Y3"), None, Str("S4")>> }

PiscoHeader == Strs(<<"CtrNbr", "POR", "POD", "SzTp", "Carrier Seal">>)
PiscoRows ==
    { <<Str("A1"), Str("PEPIO"), Str("NLRTM"), Str("45G1"), Str("S1")>>,
      <<Str("A2"), None, Str("NLRTM"), Num(0), Num(12)>>,
      <<NaN, Str("PEPIO"), None, None, Str("S3")>> }

ListOfUnitHeader == Strs(<<"UNIT", "SIZE", "POL", "POD", "SEAL", "SEAL">>)
ListOfUnitRows ==
    { <<Str("A1"), Num(40), Str("PACCT"), Str("NLRTM"), Str("S1"), Str("S2")>>,
      <<Str("A2"), Num(20), None, None, Str("S3"), Str("S3")>>,
      <<Str("nan"), Num(20), Str("PACCT"), None, None, Str("S4")>> }

\* the worksheets of the examples of spec.md, section 8
GateInExample ==
    << GateInHeader,
       <<Str("A1"), Str("PAMIT"), Str("S1"), None>>,
       <<Str("A2"), Str("PAMIT"), Str("S2"), None>>,
       <<Str(""), None, None, None>>,
       <<Str("A3"), Str("PAMIT"), Str("S3"), None>> >>

UnitListExample ==
    << Strs(<<"Unit", "POL", "Voyage In">>),
       <<Str("A1"), Str("PAROD"), Str("V2")>>,
       <<Str("A2"), Str("PAROD"), Str("")>>,
       <<Str("A3"), Str("PAROD"), Str("V1")>>,
       <<Str("A4"), Str("PAROD"), Str("V2")>> >>

ExampleCalls ==
    { <<GateInExample, <<>>, <<>>>>, <<UnitListExample, <<"V1">>, <<>>>> }

\* the calls of convert on sheets of n data rows:
\* <<sheet, voyage_filters, carrier_filters>>
Calls(n) ==
    (SheetsOf(n, <<>>, GateInHeader, 0, GateInRows)
        \X {<<>>, <<"V1">>} \X {<<>>, <<"Med">>})
    \cup (SheetsOf(n, <<>>, drop_col(GateInHeader, 1), 0,
                   {drop_col(q, 1) : q \in GateInRows}) \X {<<>>} \X {<<>>})
    \cup (SheetsOf(n, <<>>, UnitListHeader, 0, UnitListRows)
        \X {<<>>, <<"V1">>} \X {<<>>})
    \cup (SheetsOf(n, <<>>, drop_col(UnitListHeader, 2), 0,
                   {drop_col(q, 2) : q \in UnitListRows}) \X {<<>>, <<"V1">>} \X {<<>>})
    \cup (SheetsOf(n, <<>>, drop_col(UnitListHeader, 4), 0,
                   {drop_col(q, 4) : q \in UnitListRows}) \X {<<"V1">>} \X {<<>>})
    \cup (SheetsOf(n, <<>>, ColonYardHeader, 7, ColonYardRows)
        \X {<<>>} \X {<<>>, <<"Med">>, <<"zz", "med">>})
    \cup (SheetsOf(n, <<>>, drop_col(ColonYardHeader, 4), 7,
                   {drop_col(q, 4) : q \in ColonYardRows}) \X {<<>>} \X {<<>>, <<"Med">>})
    \cup (SheetsOf(n, <<>>, drop_col(ColonYardHeader, 3), 7,
                   {drop_col(q, 3) : q \in ColonYardRows}) \X {<<>>} \X {<<>>, <<"Med">>})
    \cup (SheetsOf(n, <<ListadoTitle, <<>>>>, ListadoHeader, 0, ListadoRows)
        \X {<<>>, <<"V1">>} \X {<<>>})
    \cup (SheetsOf(n, <<ListadoTitle, <<>>>>, drop_col(ListadoHeader, 2), 0,
                   {drop_col(q, 2) : q \in ListadoRows}) \X {<<>>} \X {<<>>})
    \cup (SheetsOf(n, <<>>, RodmanHeader, 0, RodmanRows) \X {<<>>, <<"V1">>} \X {<<>>})
    \cup (SheetsOf(n, <<>>, drop_col(RodmanHeader, 1), 0,
                   {drop_col(q, 1) : q \in RodmanRows}) \X {<<>>} \X {<<>>})
    \cup (SheetsOf(n, <<>>, PiscoHeader, 0, PiscoRows) \X {<<>>} \X {<<>>, <<"Med">>})
    \cup (SheetsOf(n, <<>>, ListOfUnitHeader, 0, ListOfUnitRows) \X {<<>>} \X {<<>>})

-----------------------------------------------------------------------------
(* Specification of convert *)

\* nothing assigned yet
LocalsUnset ==
    /\ file_format = "" /\ headers = <<>> /\ data_start_row = 0
    /\ source_col_indices = <<>>
    /\ container_col_idx = 0 /\ voyage_col_idx = 0 /\ carrier_col_idx = 0
    /\ containers_found = 0 /\ containers_skipped = 0 /\ total_seals = 0
    /\ seal_distribution = <<>>
    /\ output_row = 0 /\ source_row = 0
    /\ ws_template = <<>>
    /\ result = Pending
    /\ out_file = "absent"
    /\ log = <<>> /\ raised = FALSE
    /\ examined = {} /\ accepted = <<>>

PureUnset == cell_value = None /\ norm_calls = <<>> /\ detect_calls = <<>>

\* no second call
ConcurrentUnset == invocations = <<>> /\ workbooks = <<>> /\ files = <<>>

\* no window
GuiUnset ==
    /\ selected_file = "" /\ convert_btn = "disabled"
    /\ vessel_voyage_vars = <<>> /\ workers = <<>>

Init ==
    /\ \E call \in Calls(NDataRows) \cup ExampleCalls :
          /\ ws_source = call[1]
          /\ voyage_filters = call[2]
          /\ carrier_filters = call[3]
    /\ progress_callback = TRUE
    /\ pc = "start"
    /\ template_path = TemplateSheet
    /\ LocalsUnset
    /\ GuiUnset
    /\ PureUnset
    /\ ConcurrentUnset

Spec == Init /\ [][Next]_vars

-----------------------------------------------------------------------------
(* Specification of convert with exceptions and unresolved container columns *)

\* sheets of n data rows on which the container column of the detected format
\* is not found: UNITLIST without Unit, COLON YARD without Container No, RODMAN
\* without Unit and Container, LISTADO whose header only contains CONTENEDOR,
\* GATE_IN without CONTENEDOR
MissingColumnCalls(n) ==
    (SheetsOf(n, <<>>, drop_col(UnitListHeader, 1), 0,
              {drop_col(q, 1) : q \in UnitListRows}) \X {<<>>, <<"V1">>} \X {<<>>})
    \cup (SheetsOf(n, <<>>, drop_col(ColonYardHeader, 1), 7,
                   {drop_col(q, 1) : q \in ColonYardRows}) \X {<<>>} \X {<<>>, <<"Med">>})
    \cup (SheetsOf(n, <<>>, drop_col(drop_col(RodmanHeader, 1), 1), 0,
                   {drop_col(drop_col(q, 1), 1) : q \in RodmanRows}) \X {<<>>} \X {<<>>})
    \cup (SheetsOf(n, <<ListadoTitle, <<>>>>,
                   <<Str("No. CONTENEDOR")>> \o Tail(ListadoHeader), 0, ListadoRows)
            \X {<<>>} \X {<<>>})
    \cup (SheetsOf(n, <<>>, drop_col(GateInHeader, 1), 0,
                   {drop_col(q, 1) : q \in GateInRows}) \X {<<>>, <<"V1">>} \X {<<>>})

InitFailures ==
    /\ \E call \in Calls(NDataRows) \cup ExampleCalls \cup MissingColumnCalls(NDataRows) :
          /\ ws_source = call[1]
          /\ voyage_filters = call[2]
          /\ carrier_filters = call[3]
    /\ progress_callback \in BOOLEAN
    /\ pc = "start"
    /\ template_path = TemplateSheet
    /\ LocalsUnset
    /\ GuiUnset
    /\ PureUnset
    /\ ConcurrentUnset

SpecFailures == InitFailures /\ [][NextOrException]_vars

-----------------------------------------------------------------------------
(* Specification of convert on one-row worksheets with many seal columns *)

seal_name(i) == "S" \o nat_str(i)

\* what the i-th seal column of the row may hold: nothing, its own seal,
\* its own seal followed by "/ type", or the seal of the column before
SealCellValues(i) ==
    { None, Str(seal_name(i)), Str(seal_name(i) \o " / T"),
      IF i = 1 THEN Num(7) ELSE Str(seal_name(i - 1)) }

\* the rows: lead cells, then one value for each of the seal columns i..n
RECURSIVE SealCellsFrom(_, _)
SealCellsFrom(i, n) ==
    IF i > n THEN {<<>>}
    ELSE {<<v>> \o rest : v \in SealCellValues(i), rest \in SealCellsFrom(i + 1, n)}

SealRowsOf(lead, n) == {lead \o q : q \in SealCellsFrom(1, n)}

RodmanSealNames ==
    << "Seal 1 / type / origin", "Seal 2 / type / origin",
       "Seal 3 / type / origin", "Seal 1", "Seal 2", "Seal 3" >>

\* header, one data row, one empty row
SealSheets(lead_hdr, seal_hdr, lead) ==
    { << Strs(lead_hdr \o seal_hdr), q, <<>> >> : q \in SealRowsOf(lead, Len(seal_hdr)) }

\* the sheets with n seal columns (RODMAN has its six)
SealCalls(n) ==
    SealSheets(<<"Unit", "Slot (Yard)">>, RodmanSealNames, <<Str("A1"), Str("Y1")>>)
    \cup SealSheets(<<"UNIT", "SIZE", "POL", "POD">>, [i \in 1..n |-> "SEAL"],
                    <<Str("A1"), Num(40), Str("PACCT"), Str("NLRTM")>>)

InitSeals ==
    /\ ws_source \in SealCalls(NSealCols)
    /\ voyage_filters = <<>>
    /\ carrier_filters = <<>>
    /\ progress_callback = TRUE
    /\ pc = "start"
    /\ template_path = TemplateSheet
    /\ LocalsUnset
    /\ GuiUnset
    /\ PureUnset
    /\ ConcurrentUnset

SpecSeals == InitSeals /\ [][Next]_vars

-----------------------------------------------------------------------------
(* Specification of convert on one-row worksheets with many cell values *)

SlotHeader ==
    Strs(<<"Container No", "Carrier", "Current LOC Block", "Current LOC Bay",
           "Current LOC Row", "Current LOC Tier">>)

BlockValues == {None, Str("A"), Str("N"), Str("0")}
BayValues == {None, Num(3), Num(12), Num(0), Str("AN"), Str("-")}
RowValues == {None, Num(7), Num(105), Str(" 7 ")}
TierValues == {None, Num(2), Str("x")}

SlotRows ==
    { <<Str("A1"), Str("MSC"), b, y, w, t>> :
        b \in BlockValues, y \in BayValues, w \in RowValues, t \in TierValues }

\* COLON YARD sheets with one data row, in row 9: with the four slot columns,
\* and without the Row column
SlotSheets ==
    SheetsOf(1, <<>>, SlotHeader, 7, SlotRows)
    \cup SheetsOf(1, <<>>, drop_col(SlotHeader, 5), 7,
                  {drop_col(q, 5) : q \in SlotRows})

\* seal cells that are empty-like, or become so when cut at the first '/'
EmptyLikeSealValues ==
    { None, Str("S1 / T"), Str("0 / T / O"), Str("nan/x"), Str(" / x"), Str("0"),
      Num(0) }

\* RODMAN, UNITLIST and GATE_IN sheets with one data row and two seal columns
EmptyLikeSheets ==
    SheetsOf(1, <<>>,
             Strs(<<"Unit", "POL", "Slot (Yard)", "Seal 1 / type / origin", "Seal 1">>),
             0,
             { <<Str("A1"), p, Str("Y1"), a, b>> :
                 p \in {None, Str("nan")},
                 a \in EmptyLikeSealValues, b \in EmptyLikeSealValues })
    \cup SheetsOf(1, <<>>,
                  Strs(<<"Unit", "Voyage In", "Seal 1 / type / origin",
                         "Seal 2 / type / origin">>),
                  0,
                  { <<Str("A1"), Str("V1"), a, b>> :
                      a \in EmptyLikeSealValues, b \in EmptyLikeSealValues })
    \cup SheetsOf(1, <<>>, GateInHeader, 0,
                  { <<Str("A1"), Str("0"), a, b>> :
                      a \in EmptyLikeSealValues, b \in EmptyLikeSealValues })

InitCells ==
    /\ ws_source \in SlotSheets \cup EmptyLikeSheets
    /\ voyage_filters = <<>>
    /\ carrier_filters = <<>>
    /\ progress_callback = TRUE
    /\ pc = "start"
    /\ template_path = TemplateSheet
    /\ LocalsUnset
    /\ GuiUnset
    /\ PureUnset
    /\ ConcurrentUnset

SpecCells == InitCells /\ [][Next]_vars

-----------------------------------------------------------------------------
(* Specification of two convert calls on one converter object *)

OutputPaths == <<"out1.xlsx", "out2.xlsx">>

RodmanExample ==
    << RodmanHeader,
       <<Str("A1"), Str("B1"), None, Str("Y1"), Str("S1 / T / O"), Str("S2")>>,
       <<Str("A2"), Str("B2"), Str("PAROD"), Str("Y2"), None, None>> >>

\* what either call is made with: <<sheet, voyage_filters, carrier_filters>>
InvocationCalls ==
    ExampleCalls
    \cup {<<RodmanExample, <<>>, <<>>>>, <<UnitListExample, <<"V2">>, <<>>>>}
    \cup (SheetsOf(1, <<>>, ColonYardHeader, 7, ColonYardRows) \X {<<>>} \X {<<"Med">>})

InitInvocations ==
    /\ \E first \in InvocationCalls, second \in InvocationCalls :
          invocations =
              << new_call(first[1], first[2], first[3], OutputPaths[1]),
                 new_call(second[1], second[2], second[3], OutputPaths[2]) >>
    /\ workbooks = <<>>
    /\ files = [path \in Range(OutputPaths) |-> <<>>]
    /\ ws_source = <<>> /\ voyage_filters = <<>> /\ carrier_filters = <<>>
    /\ progress_callback = FALSE
    /\ pc = "idle"
    /\ template_path = TemplateSheet
    /\ LocalsUnset
    /\ GuiUnset
    /\ PureUnset

SpecInvocations == InitInvocations /\ [][NextInvocations]_vars

-----------------------------------------------------------------------------
(* Specification of direct calls of get_non_empty_value *)

NormAlphabet == {" ", "0", "n", "a", "N", "x"}

RECURSIVE StringsUpTo(_)
StringsUpTo(n) ==
    IF n = 0 THEN {""}
    ELSE LET shorter == StringsUpTo(n - 1)
         IN  shorter \cup {q \o c : q \in shorter, c \in NormAlphabet}

RawValues(len) ==
    {None, NaN}
    \cup {Num(n) : n \in -1..2}
    \cup {Str(q) : q \in StringsUpTo(len)}
    \cup {Str(q) : q \in {"NaN", " nan ", "nAn\t", "\t0\n", "00", "0.0",
                          DashPlaceholder, " " \o DashPlaceholder \o " ",
                          "-" \o DashPlaceholder, "MSCU1234567 "}}

InitNorm ==
    /\ cell_value \in RawValues(MaxStrLen)
    /\ norm_calls = <<>>
    /\ detect_calls = <<>>
    /\ ws_source = <<>> /\ voyage_filters = <<>> /\ carrier_filters = <<>>
    /\ progress_callback = FALSE
    /\ pc = "idle"
    /\ template_path = TemplateSheet
    /\ LocalsUnset
    /\ GuiUnset
    /\ ConcurrentUnset

\* get_non_empty_value called on the raw value, then on what it returned
CallNormalize ==
    /\ Len(norm_calls) < 2
    /\ norm_calls' =
           Append(norm_calls,
                  get_non_empty_value(IF norm_calls = <<>> THEN cell_value
                                      ELSE norm_calls[Len(norm_calls)]))
    /\ UNCHANGED <<inputs, gui, pc, locals, concurrent, cell_value, detect_calls>>

NextNorm == CallNormalize

SpecNorm == InitNorm /\ [][NextNorm]_vars

-----------------------------------------------------------------------------
(* Specification of direct calls of detect_file_format *)

DetectNames ==
    << "CtrNbr", "POR", "SzTp", "UNIT", "SIZE", "POL", "POD", "SEAL",
       "Voyage In", "Current LOC Bay", "Slot (Yard)" >>

\* the names of DetectNames[i..] that are in chosen, as header cells
RECURSIVE pick_headers(_, _)
pick_headers(chosen, i) ==
    IF i > Len(DetectNames) THEN <<>>
    ELSE IF DetectNames[i] \in chosen
         THEN <<Str(DetectNames[i])>> \o pick_headers(chosen, i + 1)
         ELSE pick_headers(chosen, i + 1)

DetectFirstCells ==
    { None, Num(0), Str("Container"), Str("Voyage Out"), Str("Current LOC Block"),
      Str("Old Slot (Yard) position"), Str("unit") }

DetectRow3 == { <<>>, <<None, Str("No. Contenedor")>>, <<Str("CONTAINER"), Num(3)>> }

DetectSheet(first, chosen, row3) ==
    << <<first>> \o pick_headers(chosen, 1), <<>>, row3 >>

InitDetect ==
    /\ \E first \in DetectFirstCells, chosen \in SUBSET Range(DetectNames),
          row3 \in DetectRow3 :
          ws_source = DetectSheet(first, chosen, row3)
    /\ voyage_filters = <<>> /\ carrier_filters = <<>>
    /\ progress_callback = FALSE
    /\ detect_calls = <<>>
    /\ cell_value = None /\ norm_calls = <<>>
    /\ pc = "idle"
    /\ template_path = TemplateSheet
    /\ LocalsUnset
    /\ GuiUnset
    /\ ConcurrentUnset

\* detect_file_format called on the sheet, which it leaves as it is
CallDetect ==
    /\ Len(detect_calls) < 2
    /\ detect_calls' = Append(detect_calls, detect_file_format(ws_source))
    /\ UNCHANGED <<inputs, gui, pc, locals, concurrent, cell_value, norm_calls>>

NextDetect == CallDetect

SpecDetect == InitDetect /\ [][NextDetect]_vars

-----------------------------------------------------------------------------
(* Specification of convert on worksheets with repeated header names *)

\* the header cells put after the columns a format needs
ListOfUnitExtraHeaders ==
    {None, Str("SEAL"), Str("seal"), Str(" SEAL"), Str("pol "), Str("POD")}
GateInExtraHeaders ==
    {None, Str("PortLoad"), Str(" portload "), Str("contenedor"),
     Str("Naviero"), Str("SEAL 2")}

ListOfUnitWideRows ==
    { <<Str("A1"), Num(40), Str("PACCT"), Str("NLRTM"), Str("S1"), Str("S2"), Str("S3")>>,
      <<Str("A2"), Num(20), None, Str("BEANR"), Str("S4"), Str("S4"), Str("S1")>> }
GateInWideRows ==
    { <<Str("A1"), Str("PAMIT"), Str("S1"), Str("PAROD")>>,
      <<Str("A2"), Str("S2"), Str("S2"), Str("S3")>> }

\* sheets of two data rows under a header with two more cells x and y
ColumnSheets ==
    UNION { SheetsOf(2, <<>>,
                     Strs(<<"UNIT", "SIZE", "POL", "POD", "SEAL">>) \o <<x, y>>, 0,
                     ListOfUnitWideRows) :
              x \in ListOfUnitExtraHeaders, y \in ListOfUnitExtraHeaders }
    \cup UNION { SheetsOf(2, <<>>, <<Str("CONTENEDOR"), x, Str("NAVIERO"), y>>, 0,
                          GateInWideRows) :
                   x \in GateInExtraHeaders, y \in GateInExtraHeaders }

InitColumns ==
    /\ ws_source \in ColumnSheets
    /\ voyage_filters = <<>>
    /\ carrier_filters = <<>>
    /\ progress_callback = TRUE
    /\ pc = "start"
    /\ template_path = TemplateSheet
    /\ LocalsUnset
    /\ GuiUnset
    /\ PureUnset
    /\ ConcurrentUnset

SpecColumns == InitColumns /\ [][Next]_vars

-----------------------------------------------------------------------------
(* Specification of convert on long worksheets *)

\* data rows of a long worksheet
NProgressRows == 205

\* a GATE_IN sheet whose rows all have a container and a seal
LongGateIn ==
    <<Strs(<<"CONTENEDOR", "NAVIERO">>)>>
    \o [i \in 1..NProgressRows |-> <<Str("A" \o nat_str(i)), Str("S" \o nat_str(i))>>]

\* a UNITLIST sheet: every third row is of another voyage, every tenth has no
\* container
LongUnitList ==
    <<Strs(<<"Unit", "Voyage In", "Seal 1 / type / origin">>)>>
    \o [i \in 1..NProgressRows |->
           << IF i % 10 = 0 THEN None ELSE Str("A" \o nat_str(i)),
              IF i % 3 = 0 THEN Str("V2") ELSE Str("V1"),
              IF i % 4 = 0 THEN None ELSE Str("S" \o nat_str(i) \o " / T") >>]

\* a COLON YARD sheet: every second row is of a carrier other than MSC
LongColonYard ==
    <<Strs(<<"Container No", "Carrier", "Current LOC Block", "Seal No. 1">>)>>
    \o [i \in 1..7 |-> <<>>]
    \o [i \in 1..NProgressRows |->
           << Str("A" \o nat_str(i)),
              IF i % 2 = 0 THEN Str("CMA") ELSE Str("MSC"),
              Str("B"), Str("S1") >>]

LongCalls ==
    { <<LongGateIn, <<>>>>, <<LongUnitList, <<>>>>, <<LongUnitList, <<"V1">>>>,
      <<LongColonYard, <<>>>> }

InitProgress ==
    /\ \E call \in LongCalls :
          /\ ws_source = call[1]
          /\ voyage_filters = call[2]
    /\ carrier_filters = <<>>
    /\ progress_callback = TRUE
    /\ template_path =
          [r \in 1..(NProgressRows + 2) |-> IF r = 1 THEN TemplateHeader ELSE EmptyRow]
    /\ pc = "start"
    /\ LocalsUnset
    /\ GuiUnset
    /\ PureUnset
    /\ ConcurrentUnset

SpecProgress == InitProgress /\ [][Next]_vars

-----------------------------------------------------------------------------
(* Specification of convert with a template that has content *)

\* a template file with a column after Seal 5 and with cells left filled in
\* its rows 2, 3 and 5
UsedTemplate ==
    << TemplateHeader \o <<Str("Remarks")>>,
       << Str("OLD1"), Str("OLDPOL"), Str("OLDPOD"), Str("OLDTYPE"), Str("OLDSLOT"),
          Str("O1"), Str("O2"), Str("O3"), Str("O4"), Str("O5"), Str("keep") >>,
       << None, None, Str("OLDPOD"), None, None, None, Str("O2"), None, None, None,
          Str("keep") >>,
       [c \in 1..11 |-> None],
       << Str("OLD5"), None, None, None, None, None, None, None, None, Str("O5"),
          None >> >>
    \o [i \in 1..NDataRows |-> [c \in 1..11 |-> None]]

InitTemplate ==
    /\ \E call \in Calls(NDataRows) \cup ExampleCalls :
          /\ ws_source = call[1]
          /\ voyage_filters = call[2]
          /\ carrier_filters = call[3]
    /\ progress_callback = TRUE
    /\ template_path = UsedTemplate
    /\ pc = "start"
    /\ LocalsUnset
    /\ GuiUnset
    /\ PureUnset
    /\ ConcurrentUnset

SpecTemplate == InitTemplate /\ [][Next]_vars

-----------------------------------------------------------------------------
(* The window: process_file and its worker thread (src/unnamed/part_000) *)

\* threads the model lets process_file start
MaxWorkers == 2

\* the source files a user may choose, and their sheets
SourceFiles ==
    [name \in {"blank.xlsx", "unitlist.xlsx"} |->
        IF name = "blank.xlsx"
        THEN << GateInHeader, <<None, Str("PAMIT"), Str("S1"), None>> >>
        ELSE UnitListExample]

\* the result of a call run to its end, and whether it wrote its file
returned_by(run) == [result |-> run.call.result, written |-> run.file # <<>>]

\* what self.converter.convert returns for a source path and a filter, and
\* whether it has written a file at its output path
convert_call(source_path, filters) ==
    IF source_path \notin DOMAIN SourceFiles
    THEN [result |-> NoResult, written |-> FALSE]
    ELSE returned_by(run_alone(new_call(SourceFiles[source_path], filters, filters,
                                        OutputPath)))

\* self.template_path.exists()
template_exists == TRUE

\* update_convert_button()
update_convert_button(file) ==
    IF template_exists /\ file # "" THEN "normal" ELSE "disabled"

\* the pairs of the entry fields with a vessel and a voyage, trimmed and
\* upper-cased
vessel_voyage_pairs_of(fields) ==
    SelectSeq([i \in 1..Len(fields) |->
                  <<upper(strip(fields[i][1])), upper(strip(fields[i][2]))>>],
              LAMBDA pair : pair[1] # "" /\ pair[2] # "")

\* "if result:" of the standard mode: any dict convert returns is counted
counts_as_file(returned) == returned # NoResult

\* on_drop / browse_file: set_source_file(file_path)
SetSourceFile(file_path) ==
    /\ selected_file' = file_path
    /\ convert_btn' = update_convert_button(file_path)
    /\ UNCHANGED <<inputs, pc, locals, pure, concurrent, vessel_voyage_vars, workers>>

\* the Clear button: clear_file()
ClearFile ==
    /\ selected_file # ""
    /\ selected_file' = ""
    /\ convert_btn' = update_convert_button("")
    /\ UNCHANGED <<inputs, pc, locals, pure, concurrent, vessel_voyage_vars, workers>>

\* clear_all_filters()
ClearAllFilters ==
    /\ \E i \in 1..Len(vessel_voyage_vars) : vessel_voyage_vars[i] # <<"", "">>
    /\ vessel_voyage_vars' = [i \in 1..Len(vessel_voyage_vars) |-> <<"", "">>]
    /\ UNCHANGED <<inputs, pc, locals, pure, concurrent, selected_file, convert_btn,
                   workers>>

\* a click on the enabled convert button: process_file() up to the start of
\* the thread
ProcessFile ==
    /\ convert_btn = "normal"
    /\ Len(workers) < MaxWorkers
    /\ IF ~ template_exists \/ selected_file = ""
       THEN UNCHANGED <<convert_btn, workers>>
       ELSE /\ convert_btn' = "disabled"
            /\ workers' =
                  Append(workers,
                         [pc |-> "run",
                          vessel_voyage_pairs |->
                              vessel_voyage_pairs_of(vessel_voyage_vars),
                          next_pair |-> 1,
                          total_files |-> 0, total_containers |-> 0,
                          total_seals |-> 0,
                          summary |-> "",
                          clicked_file |-> selected_file,
                          source_paths |-> {},
                          files_written |-> 0])
    /\ UNCHANGED <<inputs, pc, locals, pure, concurrent, selected_file,
                   vessel_voyage_vars>>

\* the worker after a convert call of the filter mode has returned c
after_filtered_call(t, source_path, c) ==
    LET counted == c.result # NoResult /\ c.result.containers > 0
    IN  [t EXCEPT
            !.next_pair = @ + 1,
            !.source_paths = @ \cup {source_path},
            !.files_written = IF c.written THEN @ + 1 ELSE @,
            !.total_files = IF counted THEN @ + 1 ELSE @,
            !.total_containers = IF counted THEN @ + c.result.containers ELSE @,
            !.total_seals = IF counted THEN @ + c.result.seals ELSE @]

\* the worker after the convert call of the standard mode has returned c
after_standard_call(t, source_path, c) ==
    LET counted == counts_as_file(c.result)
    IN  [t EXCEPT
            !.pc = "summary",
            !.source_paths = @ \cup {source_path},
            !.files_written = IF c.written THEN @ + 1 ELSE @,
            !.total_files = IF counted THEN 1 ELSE @,
            !.total_containers = IF counted THEN c.result.containers ELSE @,
            !.total_seals = IF counted THEN c.result.seals ELSE @]

\* process_thread: one convert call, of the next pair or of the whole file
WorkerConverts(w) ==
    LET t == workers[w]
    IN  /\ t.pc = "run"
        /\ IF t.vessel_voyage_pairs # <<>>
           THEN IF t.next_pair > Len(t.vessel_voyage_pairs)
                THEN workers' = [workers EXCEPT ![w].pc = "summary"]
                ELSE workers' =
                         [workers EXCEPT
                             ![w] = after_filtered_call(
                                        t, selected_file,
                                        convert_call(
                                            selected_file,
                                            <<t.vessel_voyage_pairs[t.next_pair][2]>>))]
           ELSE IF selected_file = ""
                THEN \* self.selected_file.stem raises in the thread
                     workers' = [workers EXCEPT ![w].pc = "raised"]
                ELSE workers' =
                         [workers EXCEPT
                             ![w] = after_standard_call(
                                        t, selected_file,
                                        convert_call(selected_file, <<>>))]
        /\ UNCHANGED <<inputs, pc, locals, pure, concurrent, selected_file,
                       convert_btn, vessel_voyage_vars>>

\* process_thread: the message box, then the button enabled again
WorkerFinishes(w) ==
    /\ workers[w].pc = "summary"
    /\ workers' = [workers EXCEPT
                      ![w].pc = "done",
                      ![w].summary = IF workers[w].total_files > 0
                                     THEN "Success!" ELSE "No Data"]
    /\ convert_btn' = "normal"
    /\ UNCHANGED <<inputs, pc, locals, pure, concurrent, selected_file,
                   vessel_voyage_vars>>

NextGui ==
    \/ \E file_path \in DOMAIN SourceFiles : SetSourceFile(file_path)
    \/ ClearFile
    \/ ClearAllFilters
    \/ ProcessFile
    \/ \E w \in 1..Len(workers) : WorkerConverts(w)
    \/ \E w \in 1..Len(workers) : WorkerFinishes(w)

\* the entry fields when the window opens: empty, or one pair filled in
InitGui ==
    /\ selected_file = ""
    /\ convert_btn = "disabled"
    /\ vessel_voyage_vars \in
          { << <<"", "">>, <<"", "">> >>,
            << <<"msc ana", " v1 ">>, <<"msc eva", "">> >> }
    /\ workers = <<>>
    /\ ws_source = <<>> /\ voyage_filters = <<>> /\ carrier_filters = <<>>
    /\ progress_callback = TRUE
    /\ template_path = TemplateSheet
    /\ pc = "idle"
    /\ LocalsUnset
    /\ PureUnset
    /\ ConcurrentUnset

SpecGui == InitGui /\ [][NextGui]_vars

-----------------------------------------------------------------------------
(* Vocabulary of the properties *)

\* the call is in or past its row loop
InLoop == pc \in {"loop", "end_loop", "normalize"} \/ (pc = "done" /\ result # NoResult)

\* the row loop has ended
LoopOver ==
    \/ pc \in {"end_loop", "normalize"}
    \/ pc = "done" /\ result # NoResult
    \/ pc = "loop" /\ source_row > max_row(ws_source)

DataRows == data_start_row..max_row(ws_source)

ContainerOf(r) == get_non_empty_value(Cell(ws_source, r, container_col_idx))

BlankRows == {r \in DataRows : ContainerOf(r) = None}

\* the first data row with an empty container; past the sheet when none is
FirstBlank ==
    IF BlankRows = {} THEN max_row(ws_source) + 1
    ELSE CHOOSE r \in BlankRows : \A q \in BlankRows : r <= q

\* the rows of a set, in increasing order
RECURSIVE Ascending(_)
Ascending(rows) ==
    IF rows = {} THEN <<>>
    ELSE LET least == CHOOSE r \in rows : \A q \in rows : r <= q
         IN  <<least>> \o Ascending(rows \ {least})

NoFilterInEffect == voyage_col_idx = 0 /\ carrier_col_idx = 0

\* the Carrier cell of row r, normalized; None when the sheet has no such column
CarrierOf(r) ==
    IF "Carrier" \in DOMAIN source_col_indices
    THEN get_non_empty_value(Cell(ws_source, r, source_col_indices["Carrier"]))
    ELSE None

IsMSC(v) == v # None /\ upper(str(v)) = "MSC"

-----------------------------------------------------------------------------
(* C1 *)

\* C1, as stated: in a run with no voyage/carrier filter in effect the loop
\* reads no row after the first row with an empty container, and the accepted
\* rows are exactly the rows before that row.
C1_AcceptsAllBeforeFirstBlank ==
    (InLoop /\ NoFilterInEffect) =>
        /\ examined \subseteq data_start_row..FirstBlank
        /\ LoopOver => accepted = Ascending(data_start_row..(FirstBlank - 1))

\* C1, amended: in a run with no voyage/carrier filter in effect the loop reads
\* the rows from the data-start row down to the first row with an empty
\* container and no row after it; the accepted rows are exactly the rows before
\* that row, less, on a COLON YARD sheet that has a Carrier column, the rows
\* whose Carrier is not MSC.
C1_StopsAtFirstBlank ==
    (InLoop /\ NoFilterInEffect) =>
        /\ examined \subseteq data_start_row..FirstBlank
        /\ LoopOver =>
              /\ examined = {r \in DataRows : r <= FirstBlank}
              /\ accepted =
                    Ascending({r \in data_start_row..(FirstBlank - 1) :
                                  \/ file_format # "COLON YARD"
                                  \/ "Carrier" \notin DOMAIN source_col_indices
                                  \/ IsMSC(CarrierOf(r))})

\* an unfiltered run has stopped at an empty container, after accepting two
\* rows, with a container in the row below that is never read
C1_Witness ==
    /\ pc = "done" /\ result # NoResult /\ NoFilterInEffect
    /\ accepted = <<2, 3>>
    /\ FirstBlank = 4
    /\ ContainerOf(5) = Str("A3")
    /\ 5 \notin examined

-----------------------------------------------------------------------------
(* C2 *)

UnitListFiltered == InLoop /\ file_format = "UNITLIST" /\ voyage_filters # <<>>

VoyageMatches(r) ==
    LET v == get_non_empty_value(Cell(ws_source, r, voyage_col_idx))
    IN  v # None /\ IsStr(v) /\ \E i \in 1..Len(voyage_filters) : voyage_filters[i] = v.v

\* C2: on a UNITLIST sheet converted with a voyage filter an empty container
\* never ends the loop: the loop does not break, when it is over every data row
\* down to the last row of the sheet has been read, and every row with a
\* container and a matching voyage is accepted, the rows below an empty
\* container included.
C2_BlankContainerSkippedUnderFilter ==
    UnitListFiltered =>
        /\ pc # "end_loop"
        /\ examined = {r \in DataRows : r < source_row}
        /\ LoopOver =>
              /\ examined = DataRows
              /\ \A r \in DataRows :
                    (ContainerOf(r) # None /\ VoyageMatches(r)) =>
                        r \in Range(accepted)

\* a filtered UNITLIST run is over, having read an empty container in one row
\* and accepted a matching row below it
C2_Witness ==
    /\ UnitListFiltered /\ pc = "done"
    /\ \E blank \in BlankRows : \E r \in Range(accepted) : blank < r

-----------------------------------------------------------------------------
(* C3 *)

Row1Has(h) == \E c \in 1..max_column(ws_source) : Cell(ws_source, 1, c) = Str(h)

\* the header signatures of spec.md 4.1, rules 1 to 6
Signature(rule) ==
    CASE rule = 1 -> Row1Has("CtrNbr") /\ Row1Has("POR") /\ Row1Has("SzTp")
      [] rule = 2 -> /\ Row1Has("UNIT") /\ Row1Has("SIZE") /\ Row1Has("POL")
                     /\ Row1Has("POD") /\ Row1Has("SEAL")
      [] rule = 3 -> Row1Has("Voyage In") \/ Row1Has("Voyage Out")
      [] rule = 4 -> Row1Has("Current LOC Block") \/ Row1Has("Current LOC Bay")
      [] rule = 5 -> \E c \in 1..max_column(ws_source) :
                        LET h == Cell(ws_source, 1, c)
                        IN  truthy(h) /\ contains("Slot (Yard)", str(h))
      [] rule = 6 -> \E c \in 1..max_column(ws_source) :
                        LET h == Cell(ws_source, 3, c)
                        IN  truthy(h) /\ contains("CONTENEDOR", upper(str(h)))

\* the first rule whose signature the sheet satisfies; 7 when none does
FirstRule ==
    IF \E i \in 1..6 : Signature(i)
    THEN CHOOSE i \in 1..6 : Signature(i) /\ \A j \in 1..(i - 1) : ~ Signature(j)
    ELSE 7

RuleFormat(rule) ==
    CASE rule = 1 -> "PISCO"
      [] rule = 2 -> "LIST_OF_UNIT"
      [] rule = 3 -> "UNITLIST"
      [] rule = 4 -> "COLON YARD"
      [] rule = 5 -> IF Cell(ws_source, 1, 1) = Str("Container")
                     THEN "RODMAN_CONVERTED" ELSE "RODMAN"
      [] rule = 6 -> "LISTADO"
      [] rule = 7 -> "GATE_IN"

\* C3: detect_file_format returns the format of the first rule, in the order
\* PISCO, LIST_OF_UNIT, UNITLIST, COLON YARD, RODMAN/RODMAN_CONVERTED, LISTADO,
\* whose signature the sheet satisfies, and GATE_IN with the headers of row 1
\* and data from row 2 when none does; a sheet with the PISCO and the UNITLIST
\* signatures is PISCO, and a sheet with CONTENEDOR in row 3 whose row 1
\* satisfies an earlier rule is not LISTADO.
C3_FirstMatchingRuleWins ==
    \A n \in 1..Len(detect_calls) :
        LET d == detect_calls[n]
        IN  /\ d.file_format = RuleFormat(FirstRule)
            /\ FirstRule = 7 =>
                  d.headers = row_values(ws_source, 1) /\ d.data_start_row = 2
            /\ (Signature(1) /\ Signature(3)) => d.file_format = "PISCO"
            /\ (Signature(6) /\ \E j \in 1..5 : Signature(j)) =>
                  d.file_format # "LISTADO"

\* a sheet with the PISCO and the UNITLIST signatures and CONTENEDOR in row 3
\* has been detected as PISCO
C3_Witness ==
    /\ detect_calls # <<>>
    /\ Signature(1) /\ Signature(3) /\ Signature(6)
    /\ detect_calls[1].file_format = "PISCO"

-----------------------------------------------------------------------------
(* C4 *)

FormatTags ==
    { "GATE_IN", "LISTADO", "RODMAN", "RODMAN_CONVERTED", "UNITLIST",
      "COLON YARD", "PISCO", "LIST_OF_UNIT" }

-----------------------------------------------------------------------------
(* C5 *)

\* C5: get_non_empty_value applied to its own result returns that result.
C5_NormalizeIdempotent ==
    Len(norm_calls) = 2 => norm_calls[2] = norm_calls[1]

\* a padded string has been trimmed by the first call and given to the second
C5_Witness ==
    /\ Len(norm_calls) = 2
    /\ IsStr(cell_value)
    /\ norm_calls[1] # None
    /\ norm_calls[1] # cell_value

-----------------------------------------------------------------------------
(* C6 *)

\* the seal values source row r offers, in seal-column order, after the '/'
\* truncation, the empty ones left out
RowSealValues(r) ==
    LET names == seal_columns(file_format, headers)
        values == [i \in 1..Len(names) |->
                      seal_value(ws_source, r, file_format, source_col_indices,
                                 names[i])]
    IN  SelectSeq(values, LAMBDA v : v # None)

\* the i-th distinct value of a sequence, by first occurrence
NthDistinct(values, i) ==
    values[CHOOSE j \in 1..Len(values) :
               /\ Cardinality({values[k] : k \in 1..j}) = i
               /\ Cardinality({values[k] : k \in 1..(j - 1)}) = i - 1]

NumDistinct(values) == Cardinality(Range(values))

RECURSIVE SumDistinct(_)
SumDistinct(rows) ==
    IF rows = <<>> THEN 0
    ELSE NumDistinct(RowSealValues(Head(rows))) + SumDistinct(Tail(rows))

Min(a, b) == IF a < b THEN a ELSE b

\* the output row of the k-th accepted source row
OutputRowOf(k) == ws_template[k + 1]

\* C6: in every accepted row the seals written are the collected values
\* deduplicated by exact value after the '/' truncation: Seal 1..Seal 4 hold the
\* first distinct values in the order of their first occurrence, no value is
\* written to two seal cells, and the seals counted for the row are its distinct
\* values.
C6_SealsDeduplicated ==
    InLoop =>
        /\ \A k \in 1..Len(accepted) :
              LET values == RowSealValues(accepted[k])
                  out == OutputRowOf(k)
              IN  /\ \A i \in 1..Min(NumDistinct(values), 4) :
                         out[5 + i] = NthDistinct(values, i)
                  /\ \A i, j \in 6..10 :
                         (i < j /\ out[i] # None) => out[i] # out[j]
        /\ total_seals = SumDistinct(accepted)
        /\ (Len(accepted) = 1 /\ total_seals > 0) =>
              seal_distribution = (total_seals :> 1)

\* a row whose seal columns hold S1, S1, S3 has been written as Seal 1 = S1,
\* Seal 2 = S3, with two seals counted
C6_Witness ==
    /\ pc = "done" /\ accepted = <<2>>
    /\ RowSealValues(2) = <<Str("S1"), Str("S1"), Str("S3")>>
    /\ OutputRowOf(1)[6] = Str("S1")
    /\ OutputRowOf(1)[7] = Str("S3")
    /\ OutputRowOf(1)[8] = None
    /\ result.seals = 2

-----------------------------------------------------------------------------
(* C7 *)

\* str of the distinct values i..n, joined by the separator
RECURSIVE JoinDistinct(_, _, _)
JoinDistinct(values, i, n) ==
    IF i = n THEN str(NthDistinct(values, i))
    ELSE str(NthDistinct(values, i)) \o "  ;  " \o JoinDistinct(values, i + 1, n)

\* C7: in every accepted row with n deduplicated seals, Seal 1..Seal 4 hold
\* seals 1..min(n,4), one each, and nothing beyond seal n; Seal 5 is not
\* written when n < 5, holds seal 5 when n = 5, and holds seals 5..n in order,
\* joined by two spaces, a semicolon and two spaces, when n > 5.
C7_SealOverflowPacked ==
    InLoop =>
        \A k \in 1..Len(accepted) :
            LET values == RowSealValues(accepted[k])
                n == NumDistinct(values)
                out == OutputRowOf(k)
            IN  /\ \A i \in 1..4 :
                       out[5 + i] = IF i <= n THEN NthDistinct(values, i) ELSE None
                /\ out[10] = IF n < 5 THEN None
                             ELSE IF n = 5 THEN NthDistinct(values, 5)
                             ELSE Str(JoinDistinct(values, 5, n))

\* a row with the six distinct seals S1..S6 has been written with S5 and S6
\* joined in Seal 5
C7_Witness ==
    /\ pc = "done" /\ accepted = <<2>>
    /\ RowSealValues(2) = [i \in 1..6 |-> Str(seal_name(i))]
    /\ \A i \in 1..4 : OutputRowOf(1)[5 + i] = Str(seal_name(i))
    /\ OutputRowOf(1)[10] = Str("S5  ;  S6")
    /\ result.seals = 6

-----------------------------------------------------------------------------
(* C8 *)

\* C8: in every COLON YARD run a row is accepted only if the sheet has a
\* Carrier column and the row's normalized, upper-cased Carrier is "MSC".
C8_OnlyMSCAccepted ==
    (InLoop /\ file_format = "COLON YARD") =>
        \A k \in 1..Len(accepted) :
            /\ "Carrier" \in DOMAIN source_col_indices
            /\ IsMSC(CarrierOf(accepted[k]))

\* a row of a COLON YARD sheet that has no Carrier column has been accepted
C8_Witness ==
    /\ InLoop /\ file_format = "COLON YARD"
    /\ "Carrier" \notin DOMAIN source_col_indices
    /\ accepted # <<>>

-----------------------------------------------------------------------------
(* C9 *)

\* C9: the POL cell of every output row of a LISTADO run is "ECGYE" and of a
\* UNITLIST run "PSA-RODMAN", whatever columns the sheet has.
C9_ForcedPOL ==
    InLoop =>
        \A k \in 1..Len(accepted) :
            /\ file_format = "LISTADO" => OutputRowOf(k)[2] = Str("ECGYE")
            /\ file_format = "UNITLIST" => OutputRowOf(k)[2] = Str("PSA-RODMAN")

\* a row of a UNITLIST sheet that has no POL column has been accepted and its
\* POL cell left empty
C9_Witness ==
    /\ InLoop /\ file_format = "UNITLIST"
    /\ "POL" \notin DOMAIN source_col_indices
    /\ accepted # <<>>
    /\ OutputRowOf(1)[2] = None

-----------------------------------------------------------------------------
(* C10 *)

\* C10: a run that ends its row loop with no row accepted returns the result
\* containers = 0, seals = 0, output = None, distribution = {}, and at no point
\* of such a run is a file saved or normalized at the output path.
C10_EmptyRunReturnsZeroResult ==
    (InLoop /\ accepted = <<>>) =>
        /\ out_file = "absent"
        /\ pc # "normalize"
        /\ pc = "done" =>
              /\ result = ZeroResult
              /\ result.containers = 0 /\ result.seals = 0
              /\ result.output = None /\ result.distribution = <<>>

\* a UNITLIST run whose voyage filter matched none of the containers has
\* returned
C10_Witness ==
    /\ pc = "done" /\ file_format = "UNITLIST" /\ voyage_filters # <<>>
    /\ examined = DataRows
    /\ \E r \in DataRows : ContainerOf(r) # None
    /\ accepted = <<>>
    /\ result = ZeroResult

-----------------------------------------------------------------------------
(* C11 *)

\* the column of the header row named so, 0 when there is none
HeaderColumn(name) ==
    IF \E c \in 1..Len(headers) : headers[c] = Str(name)
    THEN CHOOSE c \in 1..Len(headers) :
             headers[c] = Str(name) /\ \A d \in 1..(c - 1) : headers[d] # Str(name)
    ELSE 0

\* the column the voyage filter reads: Voyage Out when the sheet has one,
\* Voyage In otherwise
FilterVoyageColumn ==
    IF HeaderColumn("Voyage Out") # 0 THEN HeaderColumn("Voyage Out")
    ELSE HeaderColumn("Voyage In")

\* the normalized voyage of row r is one of the filter values
VoyageIsFiltered(r) ==
    LET v == get_non_empty_value(Cell(ws_source, r, FilterVoyageColumn))
    IN  IsStr(v) /\ v.v \in Range(voyage_filters)

\* C11: on a UNITLIST run with a voyage filter the rows accepted are exactly
\* the rows with a non-blank container whose normalized voyage, read from
\* Voyage Out when the sheet has that column and from Voyage In otherwise,
\* equals one of the filter values; rows with a blank or other voyage are
\* skipped.
C11_VoyageFilterExactMatch ==
    UnitListFiltered =>
        /\ FilterVoyageColumn # 0
        /\ \A k \in 1..Len(accepted) :
              ContainerOf(accepted[k]) # None /\ VoyageIsFiltered(accepted[k])
        /\ LoopOver =>
              /\ accepted = Ascending({r \in DataRows : /\ ContainerOf(r) # None
                                                        /\ VoyageIsFiltered(r)})
              /\ containers_found = Len(accepted)

\* the sheet with voyages V2, blank, V1, V2 in its only voyage column, Voyage
\* In, converted with the filter V1: the V1 row alone has been accepted
C11_Witness ==
    /\ UnitListFiltered /\ pc = "done"
    /\ ws_source = UnitListExample
    /\ HeaderColumn("Voyage Out") = 0
    /\ voyage_filters = <<"V1">>
    /\ examined = 2..5
    /\ accepted = <<4>>
    /\ result.containers = 1

-----------------------------------------------------------------------------
(* C12 *)

\* C12, as stated: whenever convert has returned None because of an exception,
\* raised at any point of the call, there is no file at the output path.
C12_FailedRunLeavesNoFile ==
    (pc = "done" /\ raised /\ result = NoResult) => out_file = "absent"

\* an exception raised by the reload of the saved file: convert has returned
\* None and the file of the first save is at the output path
C12_Witness ==
    /\ pc = "done" /\ raised /\ result = NoResult
    /\ accepted # <<>>
    /\ out_file = "saved"

-----------------------------------------------------------------------------
(* C13 *)

\* the name of the container column the format requires
RequiredContainerColumns ==
    CASE file_format \in {"RODMAN", "RODMAN_CONVERTED"} -> {"Unit", "Container"}
      [] file_format = "UNITLIST" -> {"Unit"}
      [] file_format = "PISCO" -> {"CtrNbr"}
      [] file_format = "LIST_OF_UNIT" -> {"UNIT"}
      [] file_format = "COLON YARD" -> {"Container No"}
      [] file_format \in {"LISTADO", "GATE_IN"} -> {"CONTENEDOR"}

\* C13: when none of the container columns the detected format requires is
\* resolved from the header row, convert returns None without raising, having
\* read no data row, written no template cell and no output file, and the
\* callback, when there is one, has received the column-not-found error as
\* its last message.
C13_MissingContainerColumnFails ==
    (pc \notin {"start", "resolve"} /\ ~ raised
        /\ \A name \in RequiredContainerColumns :
              find_column_index(headers, name) = 0) =>
        /\ pc = "done" /\ result = NoResult
        /\ examined = {} /\ accepted = <<>>
        /\ ws_template = TemplateSheet
        /\ out_file = "absent"
        /\ progress_callback =>
              /\ log # <<>>
              /\ log[Len(log)] \in {column_error_message(name) :
                                       name \in RequiredContainerColumns}

\* a COLON YARD sheet without the Container No column: None returned and the
\* error reported
C13_Witness ==
    /\ pc = "done" /\ ~ raised /\ result = NoResult
    /\ file_format = "COLON YARD"
    /\ find_column_index(headers, "Container No") = 0
    /\ progress_callback
    /\ log[Len(log)] = "ERROR: Container No column not found!"
    /\ out_file = "absent"

-----------------------------------------------------------------------------
(* C14 *)

\* an empty-like value: a numeric zero, a NaN, or a string whose trimmed,
\* upper-cased form is "", "NAN", the dash placeholder or "0"
EmptyLike(v) ==
    \/ v = NaN
    \/ v = Num(0)
    \/ IsStr(v) /\ upper(strip(v.v)) \in {"", "NAN", ",----------------------", "0"}

\* C14: no cell of an output row, Container to Seal 5, holds an empty-like
\* value, in any format, the seals cut at the first '/' included.
C14_NoEmptyLikeCellWritten ==
    InLoop =>
        \A k \in 1..Len(accepted) : \A c \in 1..10 : ~ EmptyLike(OutputRowOf(k)[c])

\* a RODMAN row whose seal cell holds "0 / T / O" has been accepted and "0"
\* written as its Seal 1
C14_Witness ==
    /\ pc = "done" /\ file_format = "RODMAN" /\ accepted = <<2>>
    /\ Cell(ws_source, 2, 4) = Str("0 / T / O")
    /\ OutputRowOf(1)[6] = Str("0")
    /\ result.seals >= 1

-----------------------------------------------------------------------------
(* C17 *)

\* s with zeros put in front of it until it has two characters
LeftPadded(s) == IF Len(s) >= 2 THEN s ELSE IF Len(s) = 1 THEN "0" \o s ELSE "00"

\* s padded as str.zfill(2) pads: the zeros go after a leading sign
SignPadded(s) == IF s \in {"+", "-"} THEN s \o "0" ELSE LeftPadded(s)

\* the string form of the slot component of row r in the column named so;
\* "" when the sheet has no such column or the normalized cell is None
SlotPart(r, name) ==
    IF HeaderColumn(name) = 0 THEN ""
    ELSE LET v == get_non_empty_value(Cell(ws_source, r, HeaderColumn(name)))
         IN  IF v = None THEN "" ELSE str(v)

\* Block, Bay, Row and Tier of row r put together, Bay and Row padded by Pad
ComposedSlot(r, Pad(_)) ==
    LET bay == SlotPart(r, "Current LOC Bay")
        row == SlotPart(r, "Current LOC Row")
    IN  SlotPart(r, "Current LOC Block")
        \o (IF bay = "" THEN "" ELSE Pad(bay))
        \o (IF row = "" THEN "" ELSE Pad(row))
        \o SlotPart(r, "Current LOC Tier")

SlotWritten(k, Pad(_)) ==
    LET composed == ComposedSlot(accepted[k], Pad)
    IN  OutputRowOf(k)[5] = IF composed = "" THEN None ELSE Str(composed)

-----------------------------------------------------------------------------
(* C16 *)

\* the deduplicated seal count of the k-th accepted row
SealCountOf(k) == NumDistinct(RowSealValues(accepted[k]))

\* the accepted rows with n seals
RowsWithSeals(n) == {k \in 1..Len(accepted) : SealCountOf(k) = n}

RECURSIVE SumOver(_, _)
SumOver(f, keys) ==
    IF keys = {} THEN 0
    ELSE LET k == CHOOSE x \in keys : TRUE
         IN  f[k] + SumOver(f, keys \ {k})

\* C16: the distribution a successful run returns maps every seal count, 0
\* included, that some accepted row has to the number of accepted rows with
\* that count, and has no other key; its values add up to the number of
\* accepted containers.
C16_DistributionCountsEveryRow ==
    (pc = "done" /\ result # NoResult) =>
        LET dist == result.distribution
        IN  /\ \A k \in DOMAIN dist : dist[k] = Cardinality(RowsWithSeals(k))
            /\ \A n \in 0..(2 * NSealCols) :
                  RowsWithSeals(n) # {} => n \in DOMAIN dist
            /\ SumOver(dist, DOMAIN dist) = result.containers

\* a run has returned after accepting a row without seals and a row with one:
\* the distribution has no key 0 and adds up to one container less
C16_Witness ==
    /\ pc = "done" /\ result # NoResult
    /\ result.containers = 2
    /\ RowsWithSeals(0) # {} /\ RowsWithSeals(1) # {}
    /\ result.distribution = (1 :> 1)

-----------------------------------------------------------------------------
(* C18 *)

\* a COLON YARD run with a carrier filter on a sheet that has a Dept Carrier
\* column
CarrierFiltered ==
    /\ InLoop /\ file_format = "COLON YARD" /\ carrier_filters # <<>>
    /\ HeaderColumn("Dept Carrier") # 0

\* the normalized Dept Carrier of row r is not none and contains, letter case
\* aside, one of the filter terms
PassesCarrierFilter(r) ==
    LET v == get_non_empty_value(Cell(ws_source, r, HeaderColumn("Dept Carrier")))
    IN  /\ v # None
        /\ \E i \in 1..Len(carrier_filters) :
              contains(upper(carrier_filters[i]), upper(str(v)))

\* C18: on a COLON YARD run with a carrier filter, a row with a non-blank
\* container passes the filter exactly when its normalized Dept Carrier is not
\* none and contains, compared case-insensitively, one of the filter terms:
\* no accepted row fails the test, a row with an empty Dept Carrier is never
\* accepted, and every row that passes it, and the MSC check when the sheet
\* has a Carrier column, is accepted.
C18_CarrierFilterSubstring ==
    CarrierFiltered =>
        /\ \A k \in 1..Len(accepted) : PassesCarrierFilter(accepted[k])
        /\ LoopOver =>
              accepted =
                  Ascending({r \in DataRows :
                                /\ ContainerOf(r) # None
                                /\ PassesCarrierFilter(r)
                                /\ \/ "Carrier" \notin DOMAIN source_col_indices
                                   \/ IsMSC(CarrierOf(r))})

\* with the filter terms "zz" and "med" a row whose Dept Carrier is
\* "Mediterranean" has been accepted and a row with no Dept Carrier skipped
C18_Witness ==
    /\ CarrierFiltered /\ pc = "done"
    /\ carrier_filters = <<"zz", "med">>
    /\ \E k \in 1..Len(accepted) :
          Cell(ws_source, accepted[k], HeaderColumn("Dept Carrier"))
              = Str("Mediterranean")
    /\ \E r \in DataRows :
          /\ ContainerOf(r) # None
          /\ Cell(ws_source, r, HeaderColumn("Dept Carrier")) = None
          /\ r \notin Range(accepted)

-----------------------------------------------------------------------------
(* C20 *)

\* C20: the result of a run that has accepted a row has a pol field, which is
\* the trimmed, upper-cased string form of the POL cell of output row 2, the
\* row of the first accepted source row, and None when that cell is empty.
C20_PolOfFirstOutputRow ==
    (pc = "done" /\ result # NoResult /\ accepted # <<>>) =>
        /\ "pol" \in DOMAIN result
        /\ LET pol == OutputRowOf(1)[2]
           IN  result.pol = IF pol = None THEN None
                            ELSE Str(upper(strip(str(pol))))

\* a GATE_IN run whose first accepted row has the POL " pamit " has returned
\* the pol "PAMIT"; the second accepted row has another POL cell
C20_Witness ==
    /\ pc = "done" /\ result # NoResult /\ file_format = "GATE_IN"
    /\ Len(accepted) >= 2
    /\ Cell(ws_source, accepted[1], 2) = Str(" pamit ")
    /\ ws_template[2][2] = Str("pamit")
    /\ ws_template[3][2] # ws_template[2][2]
    /\ result.pol = Str("PAMIT")

-----------------------------------------------------------------------------
(* C19 *)

\* the call p would be if nothing else ran
Alone(p) ==
    LET c == invocations[p]
    IN  run_alone(new_call(c.ws_source, c.voyage_filters, c.carrier_filters,
                           c.output_path))

\* C19: of two calls on one converter object that run interleaved, with
\* different output paths, each has its own template instance, loaded as the
\* template file is; the rows it has written and its statistics are at every
\* point those it has when run alone, and when it has returned, its result and
\* the file at its output path are those of the call run alone.  A call that
\* starts after the other has ended is one of the interleavings.
C19_InvocationsDoNotInterfere ==
    \A p \in DOMAIN invocations :
        LET c == invocations[p]
            alone == Alone(p)
        IN  /\ \A q \in DOMAIN invocations :
                  (q # p /\ c.pc # "start" /\ invocations[q].pc # "start") =>
                      c.wb_template # invocations[q].wb_template
            /\ c.pc \notin {"start", "done"} =>
                  \A r \in 2..(c.output_row - 1) :
                      workbooks[c.wb_template][r] = alone.sheet[r]
            /\ c.pc \notin {"start", "done"} =>
                  \A r \in c.output_row..Len(TemplateSheet) :
                      workbooks[c.wb_template][r] = EmptyRow
            /\ c.pc = "done" =>
                  /\ c.result = alone.call.result
                  /\ c.accepted = alone.call.accepted
                  /\ files[c.output_path] = alone.file

\* the second call loaded its template first and is in its row loop with a row
\* written; the first call, which wrote other rows meanwhile, has returned
C19_Witness ==
    /\ invocations # <<>>
    /\ invocations[1].pc = "done" /\ invocations[1].result # NoResult
    /\ invocations[1].result.containers >= 2
    /\ invocations[1].wb_template = 2
    /\ invocations[2].pc = "loop" /\ invocations[2].output_row = 3
    /\ invocations[2].wb_template = 1
    /\ workbooks[1][2] # workbooks[2][2]
    /\ files[OutputPaths[1]] = workbooks[2]

-----------------------------------------------------------------------------
(* C15 *)

\* the same call made with no filters, run from start to end
Unfiltered == run_alone(new_call(ws_source, <<>>, <<>>, OutputPath))

\* filters are passed to a call on a sheet that is neither UNITLIST nor COLON YARD
FiltersOnOtherFormat ==
    /\ pc \notin {"start", "resolve"}
    /\ file_format \notin {"UNITLIST", "COLON YARD"}
    /\ voyage_filters # <<>> \/ carrier_filters # <<>>

\* C15: on a sheet of a format other than UNITLIST and COLON YARD a call made
\* with voyage or carrier filters has no filter in effect, and ends as the
\* same call made with no filters ends: with the same accepted rows, the same
\* cells written, the loop ended at the same row, and the same result and
\* skipped count.
C15_FiltersIgnoredOnOtherFormats ==
    FiltersOnOtherFormat =>
        LET alone == Unfiltered
        IN  /\ NoFilterInEffect
            /\ Len(accepted) <= Len(alone.call.accepted)
            /\ \A k \in 1..Len(accepted) :
                  k <= Len(alone.call.accepted) /\ accepted[k] = alone.call.accepted[k]
            /\ pc = "done" =>
                  /\ result = alone.call.result
                  /\ accepted = alone.call.accepted
                  /\ ws_template = alone.sheet
                  /\ result # NoResult =>
                        /\ source_row = alone.call.source_row
                        /\ containers_skipped = alone.call.containers_skipped
                        /\ (out_file = "absent") = (alone.file = <<>>)

\* a GATE_IN call made with a voyage and a carrier filter has stopped at an
\* empty container with a row below it unread, having accepted the row above
C15_Witness ==
    /\ FiltersOnOtherFormat /\ pc = "done" /\ file_format = "GATE_IN"
    /\ voyage_filters # <<>> /\ carrier_filters # <<>>
    /\ accepted = <<2>>
    /\ FirstBlank = 3
    /\ ContainerOf(4) # None
    /\ 4 \notin examined
    /\ result.containers = 1

-----------------------------------------------------------------------------
(* C21 *)

\* a COLON YARD run made with a carrier filter, whatever columns the sheet has
CarrierFilterPassed == InLoop /\ file_format = "COLON YARD" /\ carrier_filters # <<>>

\* C21: on a COLON YARD sheet converted with a non-empty carrier filter, with
\* or without a Dept Carrier column, an empty container never ends the loop
\* (the loop does not break, and when it is over every data row has been
\* read), and every accepted row has a Dept Carrier that matches the filter.
C21_CarrierFilterActiveWithoutColumn ==
    CarrierFilterPassed =>
        /\ pc # "end_loop"
        /\ LoopOver => examined = DataRows
        /\ \A k \in 1..Len(accepted) :
              /\ HeaderColumn("Dept Carrier") # 0
              /\ PassesCarrierFilter(accepted[k])

\* a COLON YARD sheet without a Dept Carrier column, converted with the filter
\* "Med": the run has accepted a row and then stopped at an empty container,
\* leaving a row with a container below it unread
C21_Witness ==
    /\ CarrierFilterPassed /\ pc = "done" /\ result # NoResult
    /\ HeaderColumn("Dept Carrier") = 0
    /\ carrier_filters = <<"Med">>
    /\ accepted # <<>>
    /\ FirstBlank < max_row(ws_source)
    /\ ContainerOf(FirstBlank + 1) # None
    /\ FirstBlank + 1 \notin examined

-----------------------------------------------------------------------------
(* C22 *)

\* the output row the loop body writes for source row r into template row out
RowWrittenFrom(r, out) ==
    LET copied == copy_direct(out, direct_mappings(file_format), 1, ws_source, r,
                              file_format, source_col_indices)
        slotted == write_slot(copied, ws_source, r, file_format, source_col_indices)
        seals_list == collect_seals(<<>>, seal_columns(file_format, headers), 1,
                                    ws_source, r, file_format, source_col_indices)
    IN  write_seals(slotted, seals_list, 1)

\* C22: throughout the row loop the output row cursor is 2 plus the number of
\* rows accepted so far, which is the count of containers found; the accepted
\* rows are in source order, the k-th of them is written to output row k + 1,
\* and no row from the cursor down has been written.
C22_CursorCountsAcceptedRows ==
    InLoop =>
        /\ output_row = 2 + Len(accepted)
        /\ containers_found = Len(accepted)
        /\ \A k \in 1..Len(accepted) :
              /\ k > 1 => accepted[k - 1] < accepted[k]
              /\ ws_template[k + 1] = RowWrittenFrom(accepted[k], EmptyRow)
        /\ \A o \in output_row..Len(ws_template) : ws_template[o] = EmptyRow

\* C22, step by step: an iteration that accepts a row moves the cursor by one
\* and an iteration that skips a row leaves it where it is.
C22_CursorMovesOnAcceptOnly ==
    [][pc = "loop" =>
          output_row' = IF Len(accepted') = Len(accepted) + 1
                        THEN output_row + 1 ELSE output_row]_vars

\* a filtered COLON YARD run is over: a row was skipped for its carrier
\* between two accepted rows, which are in output rows 2 and 3
C22_Witness ==
    /\ pc = "done" /\ result # NoResult
    /\ accepted = <<9, 11>>
    /\ containers_skipped = 1
    /\ output_row = 4
    /\ ws_template[2][1] = ContainerOf(9)
    /\ ws_template[3][1] = ContainerOf(11)
    /\ ws_template[4] = EmptyRow

-----------------------------------------------------------------------------
(* C23 *)

\* the normalized values of the seal cells of source row r, one for each seal
\* column the sheet has
SealCellsOf(r) ==
    LET names == seal_columns(file_format, headers)
    IN  { get_non_empty_value(Cell(ws_source, r, source_col_indices[names[i]])) :
            i \in {j \in 1..Len(names) : names[j] \in DOMAIN source_col_indices} }
        \ {None}

HasSlash(v) == IsStr(v) /\ contains("/", v.v)

\* the text before the first '/', trimmed
BeforeSlash(v) == strip(before_slash(v.v))

\* the seals in the cells Seal 1..Seal 4 of the k-th output row
SealsOfOutputRow(k) == {OutputRowOf(k)[c] : c \in 6..9} \ {None}

\* C23: the seals written for an accepted row are its normalized seal cells,
\* where, on RODMAN, RODMAN_CONVERTED and UNITLIST sheets and on no other, a
\* value that contains '/' is replaced by the trimmed text before its first
\* '/' and is left out when that text is empty; on every other format a value
\* that contains '/' is written as it is.  (Rows of at most four seals.)
C23_SlashTruncationByFormat ==
    InLoop =>
        \A k \in 1..Len(accepted) :
            LET cells == SealCellsOf(accepted[k])
            IN  SealsOfOutputRow(k) =
                    IF file_format \in {"RODMAN", "RODMAN_CONVERTED", "UNITLIST"}
                    THEN {v \in cells : ~ HasSlash(v)}
                         \cup {Str(BeforeSlash(v)) :
                                 v \in {w \in cells : HasSlash(w) /\ BeforeSlash(w) # ""}}
                    ELSE cells

\* a seal "S2/x" has been written as it is from a COLON YARD row
C23_WitnessKept ==
    /\ InLoop /\ file_format = "COLON YARD"
    /\ \E k \in 1..Len(accepted) :
          /\ Str("S2/x") \in SealCellsOf(accepted[k])
          /\ OutputRowOf(k)[6] = Str("S2/x")

\* on a UNITLIST row "S1 / T / O" has been written as "S1", and on another
\* "/ T / O" has been left out
C23_Witness ==
    /\ InLoop /\ file_format = "UNITLIST"
    /\ \E k \in 1..Len(accepted) :
          /\ Str("S1 / T / O") \in SealCellsOf(accepted[k])
          /\ OutputRowOf(k)[6] = Str("S1")
    /\ \E k \in 1..Len(accepted) :
          /\ SealCellsOf(accepted[k]) = {Str("S2"), Str("/ T / O")}
          /\ SealsOfOutputRow(k) = {Str("S2")}

-----------------------------------------------------------------------------
(* C24 *)

\* the columns have been looked up
Resolved == pc \notin {"start", "resolve"} \/ (pc = "done" /\ result = NoResult)

\* the names convert looks up in the header row of a sheet of the format
WantedNames ==
    LET maps == direct_mappings(file_format)
    IN  {maps[i][1] : i \in 1..Len(maps)}
        \cup (IF file_format = "LIST_OF_UNIT" THEN {}
              ELSE Range(seal_columns(file_format, headers)))
        \cup (IF file_format = "COLON YARD" THEN Range(slot_columns) ELSE {})

\* the header cells whose trimmed, upper-cased text is the upper-cased name
HeadersNamed(name) ==
    {i \in 1..Len(headers) :
        /\ headers[i] # None
        /\ upper(strip(str(headers[i]))) = upper(name)}

\* the header cells of a LIST_OF_UNIT sheet named SEAL, in any letter case
SealHeaders ==
    {i \in 1..Len(headers) : headers[i] # None /\ upper(str(headers[i])) = "SEAL"}

Least(S) == CHOOSE i \in S : \A q \in S : i <= q

\* the seal cells of row r under the SEAL headers, left to right, the empty
\* ones left out
SealsLeftToRight(r) ==
    LET idx == Ascending(SealHeaders)
        values == [j \in 1..Len(idx) |->
                      get_non_empty_value(Cell(ws_source, r, idx[j]))]
    IN  SelectSeq(values, LAMBDA v : v # None)

\* C24: once the columns are resolved, each wanted name is mapped to the
\* 1-based index of the first header cell whose trimmed, upper-cased text is
\* the name upper-cased, and is absent when there is none; on a LIST_OF_UNIT
\* sheet every header cell named SEAL, not only the first, has an entry
\* SEAL_COL_<index> -> index, there is no other entry, and the seals of each
\* accepted row are the values under those headers taken left to right
\* (Seal 1..Seal 4 hold the first four distinct ones).
C24_ColumnsResolvedFirstMatch ==
    Resolved =>
        /\ \A name \in WantedNames :
              IF HeadersNamed(name) = {}
              THEN name \notin DOMAIN source_col_indices
              ELSE /\ name \in DOMAIN source_col_indices
                   /\ source_col_indices[name] = Least(HeadersNamed(name))
        /\ DOMAIN source_col_indices =
              {name \in WantedNames : HeadersNamed(name) # {}}
              \cup (IF file_format = "LIST_OF_UNIT"
                    THEN {seal_col_key(i) : i \in SealHeaders} ELSE {})
        /\ file_format = "LIST_OF_UNIT" =>
              /\ \A i \in SealHeaders : source_col_indices[seal_col_key(i)] = i
              /\ \A k \in 1..Len(accepted) :
                    LET values == SealsLeftToRight(accepted[k])
                    IN  \A j \in 1..Min(4, NumDistinct(values)) :
                           OutputRowOf(k)[5 + j] = NthDistinct(values, j)

\* a LIST_OF_UNIT sheet with the headers SEAL, pol, seal in columns 5, 6, 7:
\* POL is column 3, both seal columns have their entry, and the first row's
\* seals S1 and S3 are written in that order
C24_Witness ==
    /\ Resolved /\ file_format = "LIST_OF_UNIT"
    /\ headers[6] = Str("pol ") /\ headers[7] = Str("seal")
    /\ HeadersNamed("POL") = {3, 6}
    /\ source_col_indices["POL"] = 3
    /\ source_col_indices["SEAL_COL_5"] = 5
    /\ source_col_indices["SEAL_COL_7"] = 7
    /\ Len(accepted) >= 1
    /\ OutputRowOf(1)[6] = Str("S1")
    /\ OutputRowOf(1)[7] = Str("S3")

-----------------------------------------------------------------------------
(* C25 *)

\* a running-count message: "<n> containers, <m> seals..."
IsRunningCount(message) ==
    Len(message) >= 9 /\ SubSeq(message, Len(message) - 8, Len(message)) = " seals..."

RunningCounts == SelectSeq(log, IsRunningCount)

\* the seals counted for the accepted rows lo..hi
RECURSIVE SealsCounted(_, _)
SealsCounted(lo, hi) ==
    IF lo > hi THEN 0
    ELSE IF lo = hi THEN NumDistinct(RowSealValues(accepted[lo]))
    ELSE LET mid == (lo + hi) \div 2
         IN  SealsCounted(lo, mid) + SealsCounted(mid + 1, hi)

\* C25: with a progress callback, the running-count messages received so far
\* are one for each positive multiple of 100 the count of accepted containers
\* has reached, in that order, each giving that count and the seals counted up
\* to the row that reached it; nothing else adds one: not a skipped row, not
\* an accepted row that brings the count to a number that is no multiple of
\* 100.
C25_ProgressEveryHundredAccepted ==
    (InLoop /\ progress_callback) =>
        /\ Len(RunningCounts) = Len(accepted) \div 100
        /\ \A j \in 1..Len(RunningCounts) :
              RunningCounts[j] =
                  nat_str(100 * j) \o " containers, "
                      \o nat_str(SealsCounted(1, 100 * j)) \o " seals..."

\* a filtered UNITLIST run has skipped rows, accepted more than a hundred and
\* fewer than two hundred rows, and the callback has had one running count
C25_Witness ==
    /\ pc = "done" /\ progress_callback
    /\ voyage_filters = <<"V1">>
    /\ containers_skipped > 0
    /\ Len(accepted) > 100 /\ Len(accepted) < 200
    /\ Len(RunningCounts) = 1
    /\ accepted[100] > data_start_row + 99

\* an unfiltered run has accepted over two hundred rows and the callback has
\* had two running counts, the second after the first
C25_WitnessTwice ==
    /\ pc = "done" /\ progress_callback
    /\ Len(accepted) > 200
    /\ RunningCounts = <<"100 containers, 100 seals...", "200 containers, 200 seals...">>

-----------------------------------------------------------------------------
(* C26 *)

\* C26: in every format, the Container cell of the output row of an accepted
\* row holds the normalized value of the container column the loop read to
\* decide on the row.
C26_ContainerWrittenIsContainerChecked ==
    InLoop =>
        \A k \in 1..Len(accepted) : OutputRowOf(k)[1] = ContainerOf(accepted[k])

\* a RODMAN sheet with a Unit and a Container column: the row was accepted on
\* its Unit "A1" and its output row has the Container "B1"
C26_Witness ==
    /\ InLoop /\ file_format = "RODMAN"
    /\ container_col_idx = HeaderColumn("Unit")
    /\ HeaderColumn("Container") # 0
    /\ \E k \in 1..Len(accepted) :
          /\ ContainerOf(accepted[k]) = Str("A1")
          /\ OutputRowOf(k)[1] = Str("B1")

-----------------------------------------------------------------------------
(* C27 *)

\* the value convert has for template column c of source row r; None when it
\* has none
FieldValue(r, c) == RowWrittenFrom(r, EmptyRow)[c]

\* C27: from the load of the template on, its sheet differs from the template
\* file only in the rows 2 .. 1 + (accepted rows) and the columns 1 .. 10:
\* the header row, the rows from the cursor down and the columns after Seal 5
\* are as in the file, and in an output row a field whose value is none keeps
\* the content the file has in that cell.
C27_WritesOnlyOutputCells ==
    InLoop =>
        /\ Len(ws_template) = Len(template_path)
        /\ ws_template[1] = template_path[1]
        /\ \A o \in output_row..Len(ws_template) : ws_template[o] = template_path[o]
        /\ \A o \in 1..Len(ws_template) :
              /\ Len(ws_template[o]) = Len(template_path[o])
              /\ \A c \in 11..Len(ws_template[o]) :
                    ws_template[o][c] = template_path[o][c]
        /\ \A k \in 1..Len(accepted) : \A c \in 1..10 :
              ws_template[k + 1][c] =
                  IF FieldValue(accepted[k], c) = None
                  THEN template_path[k + 1][c]
                  ELSE FieldValue(accepted[k], c)

\* on a template with filled cells a run has written two rows: the POL and
\* the second seal of the first are none and the cells still hold the
\* template's "OLDPOL" and "O2", the column after Seal 5 and row 5 are as they
\* were, and the Container cell is overwritten
C27_Witness ==
    /\ pc = "done" /\ result # NoResult /\ Len(accepted) = 2
    /\ template_path = UsedTemplate
    /\ FieldValue(accepted[1], 2) = None /\ ws_template[2][2] = Str("OLDPOL")
    /\ FieldValue(accepted[1], 7) = None /\ ws_template[2][7] = Str("O2")
    /\ ws_template[2][1] # Str("OLD1")
    /\ ws_template[2][11] = Str("keep")
    /\ ws_template[5] = UsedTemplate[5]

-----------------------------------------------------------------------------
(* C28 *)

\* row r is rejected by the voyage filter in effect
RejectedByVoyage(r) == voyage_col_idx # 0 /\ voyage_filters # <<>> /\ ~ VoyageMatches(r)

\* row r is rejected by the carrier filter in effect
RejectedByCarrier(r) ==
    carrier_col_idx # 0 /\ carrier_filters # <<>> /\ ~ PassesCarrierFilter(r)

\* row r is rejected by the MSC check of a COLON YARD sheet with a Carrier column
RejectedByMSC(r) ==
    /\ file_format = "COLON YARD"
    /\ "Carrier" \in DOMAIN source_col_indices
    /\ ~ IsMSC(CarrierOf(r))

\* the rows read that have a container and are rejected by some check
RejectedRows ==
    {r \in examined :
        /\ ContainerOf(r) # None
        /\ RejectedByVoyage(r) \/ RejectedByCarrier(r) \/ RejectedByMSC(r)}

\* C28: throughout the row loop, and so at its end, every row read is counted
\* once: the rows read are the accepted rows, the rows counted as skipped and
\* the rows with an empty container (skipped under a filter, or the one row
\* that stopped an unfiltered run); the skipped count is the number of rows
\* with a container that the voyage filter, the carrier filter or the MSC
\* check rejects, a row rejected by two of them counting once.
C28_EveryRowAccountedOnce ==
    InLoop =>
        /\ Cardinality(examined) =
              containers_found + containers_skipped
                  + Cardinality(examined \cap BlankRows)
        /\ containers_skipped = Cardinality(RejectedRows)
        /\ Range(accepted) = {r \in examined : ContainerOf(r) # None} \ RejectedRows
        /\ NoFilterInEffect => Cardinality(examined \cap BlankRows) <= 1
        /\ (NoFilterInEffect /\ examined \cap BlankRows # {}) => LoopOver

\* a filtered COLON YARD run is over: a row with an empty container was passed
\* over, a row rejected by both the carrier filter and the MSC check counts
\* for one, and a row was accepted
C28_Witness ==
    /\ pc = "done" /\ result # NoResult
    /\ carrier_col_idx # 0
    /\ examined \cap BlankRows # {}
    /\ \E r \in examined :
          ContainerOf(r) # None /\ RejectedByCarrier(r) /\ RejectedByMSC(r)
    /\ containers_found = 1 /\ containers_skipped = 1
    /\ Cardinality(examined) = 3

-----------------------------------------------------------------------------
(* C29 *)

\* the worker threads that have not ended
RunningWorkers == {w \in 1..Len(workers) : workers[w].pc \in {"run", "summary"}}

\* C29: at most one worker thread is running at any time; while one is
\* running the convert button is disabled, whatever the user does; and the
\* only source file a worker passes to convert is the file that was selected
\* when the button was clicked.
C29_OneWorkerAtATime ==
    /\ Cardinality(RunningWorkers) <= 1
    /\ RunningWorkers # {} => convert_btn = "disabled"
    /\ \A w \in 1..Len(workers) : workers[w].source_paths \subseteq {workers[w].clicked_file}

\* two worker threads are running, the second started by a click after a file
\* was chosen while the first was running, and the first has passed to convert
\* a file other than the one selected at its click
C29_Witness ==
    /\ Cardinality(RunningWorkers) = 2
    /\ workers[1].clicked_file # workers[2].clicked_file
    /\ \E f \in workers[1].source_paths : f # workers[1].clicked_file

-----------------------------------------------------------------------------
(* C30 *)

\* C30: when a worker thread has ended, the number of files it reports is the
\* number of its convert calls that wrote an output file, and it shows the
\* summary "Success!" only when one of them did.
C30_FilesReportedAreFilesWritten ==
    \A w \in 1..Len(workers) :
        workers[w].pc = "done" =>
            /\ workers[w].total_files = workers[w].files_written
            /\ workers[w].summary = "Success!" => workers[w].files_written > 0

\* with no filter filled in, a worker has converted a sheet whose first data
\* row has no container: convert wrote no file, and the worker reports one
\* file, no containers, under "Success!"
C30_Witness ==
    \E w \in 1..Len(workers) :
        /\ workers[w].pc = "done"
        /\ workers[w].vessel_voyage_pairs = <<>>
        /\ workers[w].source_paths = {"blank.xlsx"}
        /\ workers[w].files_written = 0
        /\ workers[w].total_files = 1 /\ workers[w].total_containers = 0
        /\ workers[w].summary = "Success!"

====
